---- MODULE Spec2Model ----
(***************************************************************************)
(* The MMM-Sonos node helper (hybrid mode): discovery pipeline, per-group  *)
(* health records, push handlers, adaptive poll scheduler, subscription    *)
(* health check and the guarded rediscovery transition.                    *)
(*                                                                         *)
(* One action is one turn of the Node.js event loop: a timer callback, an  *)
(* event callback or the settlement of an external call, together with     *)
(* every promise reaction (microtask) that it makes runnable.              *)
(***************************************************************************)
EXTENDS Integers, Sequences, FiniteSets, Bags, TLC

VARIABLES
    payload,                \* the configuration the front end sends with SONOS_START
    env,                    \* the values and outcomes the devices can produce
    config,                 \* this.config
    isRediscovering,        \* this.isRediscovering
    asyncDevice,            \* this.asyncDevice: 0 (null) or a promise
    promises,               \* state of the controller discovery promises
    pipes,                  \* discoverGroups pipelines in flight and their retry timers
    zonesListener,          \* a ZonesChanged listener is registered on the listener
    groups,                 \* this.groups
    groupsById,             \* this.groupsById (its keys)
    groupHealth,            \* this.groupHealth: 0 ({}) or the generation of records it holds
    heap,                   \* the health record objects, by generation and group ID
    subscribedDevices,      \* this.subscribedDevices, by the group whose handlers they carry
    pollTimeout,            \* this.pollTimeout
    subscriptionCheckTimer, \* this.subscriptionCheckTimer is armed
    polls,                  \* poll cycles in flight (pollAllGroups not yet settled)
    subs,                   \* setListenersHybrid calls whose subscribeTo calls are pending
    renewals,               \* renewAllSubscriptions calls in flight
    emitted,                \* socket notifications sent by the last turn, in order
    calls,                  \* triggerRediscovery calls made by the last turn, in order
    last,                   \* the observation the last turn applied to a health record
    outage,                 \* "down" from a teardown to the next SET_SONOS_GROUPS,
                            \* "restored" after it, "never" before the first teardown
    pollingIntervals,       \* the armed intervals of polling-only mode
    closures,               \* per interval: its group and lastTrack, lastVolume, lastMute, lastState
    pollingFailureCounts,   \* per group: the counter of polling-only mode, None when undefined or NaN
    ticks,                  \* interval callbacks whose four fetches are pending
    eventSubs,              \* subscribeTo calls of setListeners that are pending
    setups,                 \* the listener setups run by the last turn, in order
    now,                    \* Date.now(), in clock steps
    lastUpdateTimestamp,    \* src/node_helper.js: the time of the last update, None when null
    watchdogTimer,          \* src/node_helper.js: the watchdog interval is armed
    lastActivity,           \* the time of the last push event or poll with a successful fetch
    watchdogStarted,        \* the time of the last startWatchdog
    stopped,                \* stop() has run
    included,               \* a call of shouldIncludeGroup: its arguments and its result
    command,                \* the control command of the last turn and its device calls
    trackPushed,            \* per group, the track of its last track notification if a
                            \* push sent it and no SET_SONOS_GROUPS followed
    faults,                 \* failures injected so far
    zones,                  \* ZonesChanged events delivered so far
    races                   \* the calls of withTimeout that have been made

vars == << payload, env, config, isRediscovering, asyncDevice, promises, pipes,
           zonesListener, groups, groupsById, groupHealth, heap, subscribedDevices,
           pollTimeout, subscriptionCheckTimer, polls, subs, renewals,
           pollingIntervals, closures, pollingFailureCounts, ticks, eventSubs,
           now, lastUpdateTimestamp, watchdogTimer, lastActivity, watchdogStarted,
           emitted, calls, setups, last, outage, stopped, included, command, trackPushed, faults, zones,
           races >>

(***************************************************************************)
(* Bounds                                                                  *)
(***************************************************************************)
MaxFaults == 2
MaxZones == 1
MaxCycles == 2
MaxSetups == 2
MaxAttempts == 7
MaxProm == MaxFaults + MaxZones + 1
MaxGen == MaxCycles + 1
MaxTicks == 2           \* interval callbacks of polling-only mode in flight at once
MaxIntervals == 4       \* interval closures alive at once
MaxTime == 4            \* clock steps

GroupIds == {1, 2}

(***************************************************************************)
(* Values                                                                  *)
(***************************************************************************)
None == << >>
Some(x) == << x >>
Val(o) == o[1]

Fields == {"track", "volume", "mute", "state"}

AllTracks == [title : {1, 2}, artist : {1, 2}, album : {1, 2},
              duration : {1, 2}, uri : {1, 2}]
Song1 == [title |-> 1, artist |-> 1, album |-> 1, duration |-> 1, uri |-> 1]

\* A currentTrack() call fulfilled with no track: a falsy value.
NullTrack == [title |-> 0, artist |-> 0, album |-> 0, duration |-> 0, uri |-> 0]

Min(a, b) == IF a < b THEN a ELSE b

SetMin(S) == CHOOSE x \in S : \A y \in S : x <= y

\* Zone names of each group's members, and their lower-case forms.
ZoneNames(g) == IF g = 1 THEN {"Kitchen"} ELSE {"Living Room", "kitchen"}

\* The members of group g.
Members(g) == {Some(n) : n \in ZoneNames(g)}

\* A comparison of names that keeps the case.
KeepCase(n) == n

ToLowerCase(n) == IF n = "Kitchen" THEN "kitchen"
                  ELSE IF n = "Living Room" THEN "living room"
                  ELSE IF n = "KITCHEN" THEN "kitchen"
                  ELSE n

(***************************************************************************)
(* Program constants                                                       *)
(***************************************************************************)
DefaultPlayingInterval == 15000
DefaultIdleInterval == 60000
DefaultMaxFailures == 3
RediscoveryDelay == 2000
PollingRediscoveryDelay == 5000
DefaultMaxSilentPeriod == 300000
ClockStep == 60000      \* milliseconds per clock step, the default watchdogInterval
SetGroupsRetryDelay == 10000
BackoffCeiling == 30

\* x || d of JavaScript on numbers: 0 is falsy.
OrDefault(x, d) == IF x = None \/ x = Some(0) THEN d ELSE Val(x)

\* A default that replaces 0 as well, as || does.
CoalesceFalsy(x, d) == IF x = None \/ x = Some(0) THEN d ELSE Val(x)

\* x ?? d of JavaScript: only null and undefined take the default.
Coalesce(x, d) == IF x = None THEN d ELSE Val(x)

HybridPayload == [listenWithPolling |-> FALSE, hybridMode |-> TRUE,
                  autoResubscribe |-> TRUE,
                  pollingIntervalPlaying |-> Some(15000),
                  pollingIntervalIdle |-> Some(60000),
                  maxConsecutiveFailures |-> Some(1),
                  maxSilentPeriod |-> None,
                  rooms |-> Some({})]

NewHealth == [device |-> "null", playState |-> "unknown", consecutiveFailures |-> 0,
              lastTrack |-> None, lastVolume |-> None, lastMuted |-> None]

\* An observation: each field present (its fetch or push delivered a value) or
\* absent. kind tells a poll from a push, slot and g the record it was applied
\* to, h that record as the callback left it.
NoResults == [f \in Fields |-> None]

NoObs == [kind |-> "none", g |-> 0, slot |-> 0, r |-> NoResults, h |-> NewHealth]

\* No call of shouldIncludeGroup is under observation.
NoCall == [group |-> {}, rooms |-> None, result |-> None]

\* No control command ran in the turn.
NoCommand == [op |-> "none", groupId |-> 0, arg |-> None, sent |-> << >>]

(***************************************************************************)
(* The state as one record, so that a handler is a function on states.     *)
(***************************************************************************)
Cur == [config |-> config, isRediscovering |-> isRediscovering,
        asyncDevice |-> asyncDevice, promises |-> promises, pipes |-> pipes,
        zonesListener |-> zonesListener, groups |-> groups,
        groupsById |-> groupsById, groupHealth |-> groupHealth, heap |-> heap,
        subscribedDevices |-> subscribedDevices, pollTimeout |-> pollTimeout,
        subscriptionCheckTimer |-> subscriptionCheckTimer, polls |-> polls,
        subs |-> subs, renewals |-> renewals,
        pollingIntervals |-> pollingIntervals, closures |-> closures,
        pollingFailureCounts |-> pollingFailureCounts, ticks |-> ticks,
        eventSubs |-> eventSubs, setups |-> << >>, included |-> included,
        stopped |-> stopped, now |-> now,
        lastUpdateTimestamp |-> lastUpdateTimestamp, watchdogTimer |-> watchdogTimer,
        lastActivity |-> lastActivity, watchdogStarted |-> watchdogStarted,
        emitted |-> << >>, calls |-> << >>, last |-> NoObs, outage |-> outage,
        command |-> NoCommand, trackPushed |-> trackPushed,
        faults |-> faults, zones |-> zones, races |-> races]

\* The interval closures that neither an armed interval nor a pending callback holds.
FreeIntervals(s) ==
    {i \in 1..MaxIntervals : i \notin s.pollingIntervals
                              /\ \A c \in BagToSet(s.ticks) : c.id # i}

\* Health record objects that nothing references any more are dropped.
Referenced(s) == {s.groupHealth} \cup {c.slot : c \in BagToSet(s.polls)}

\* A settled discovery promise that this.asyncDevice no longer holds is dropped too.
Collect(s) == [s EXCEPT !.heap = [k \in 1..MaxGen |->
                                    IF k \in Referenced(s) THEN s.heap[k] ELSE << >>],
                        !.closures = [i \in 1..MaxIntervals |->
                                    IF i \in FreeIntervals(s) THEN None ELSE s.closures[i]],
                        !.promises = [p \in 1..MaxProm |->
                                    IF s.promises[p] = "ready" /\ s.asyncDevice # p
                                    THEN "free" ELSE s.promises[p]]]

Become(t) ==
    \E s \in {Collect(t)} :
    /\ config' = s.config
    /\ isRediscovering' = s.isRediscovering
    /\ asyncDevice' = s.asyncDevice
    /\ promises' = s.promises
    /\ pipes' = s.pipes
    /\ zonesListener' = s.zonesListener
    /\ groups' = s.groups
    /\ groupsById' = s.groupsById
    /\ groupHealth' = s.groupHealth
    /\ heap' = s.heap
    /\ subscribedDevices' = s.subscribedDevices
    /\ pollTimeout' = s.pollTimeout
    /\ subscriptionCheckTimer' = s.subscriptionCheckTimer
    /\ polls' = s.polls
    /\ subs' = s.subs
    /\ renewals' = s.renewals
    /\ emitted' = s.emitted
    /\ calls' = s.calls
    /\ last' = s.last
    /\ outage' = s.outage
    /\ pollingIntervals' = s.pollingIntervals
    /\ closures' = s.closures
    /\ pollingFailureCounts' = s.pollingFailureCounts
    /\ ticks' = s.ticks
    /\ eventSubs' = s.eventSubs
    /\ setups' = s.setups
    /\ now' = s.now
    /\ lastUpdateTimestamp' = s.lastUpdateTimestamp
    /\ watchdogTimer' = s.watchdogTimer
    /\ lastActivity' = s.lastActivity
    /\ watchdogStarted' = s.watchdogStarted
    /\ stopped' = s.stopped
    /\ included' = s.included
    /\ command' = s.command
    /\ trackPushed' = s.trackPushed
    /\ faults' = s.faults
    /\ zones' = s.zones
    /\ races' = s.races
    /\ UNCHANGED << payload, env >>

Send(s, type, g) == [s EXCEPT !.emitted = Append(@, [type |-> type, g |-> g])]

Fault(s) == [s EXCEPT !.faults = @ + 1]

CanFail(kind) == faults < env.maxFaults /\ kind \in env.failures

Count(seq, x) == Cardinality({i \in DOMAIN seq : seq[i] = x})

Put(bag, x) == bag (+) SetToBag({x})
Take(bag, x) == bag (-) SetToBag({x})

\* A Timeout object: its state, its delay and which of two objects it is (a
\* timer armed while another one is held is a different object).
NullTimer == [st |-> "null", delay |-> 0, id |-> 0]

Timer(delay, attempts, restart) ==
    [stage |-> "timer", delay |-> delay, attempts |-> attempts, restart |-> restart,
     p |-> 0, groups |-> {}]

Stage(stage, attempts, p, gs) ==
    [stage |-> stage, delay |-> 0, attempts |-> attempts, restart |-> FALSE,
     p |-> p, groups |-> gs]

(***************************************************************************)
(* Health records                                                          *)
(***************************************************************************)
\* this.groupHealth[g] is defined
HasHealth(s, g) == s.groupHealth # 0 /\ g \in DOMAIN s.heap[s.groupHealth]

Health(s, g) == s.heap[s.groupHealth][g]

\* every() in the place of some().
isEveryGroupPlaying(s) ==
    /\ s.groupHealth # 0
    /\ \A g \in DOMAIN s.heap[s.groupHealth] : s.heap[s.groupHealth][g].playState = "playing"

isAnyGroupPlaying(s) ==
    /\ s.groupHealth # 0
    /\ \E g \in DOMAIN s.heap[s.groupHealth] : s.heap[s.groupHealth][g].playState = "playing"

getPollingInterval(s) ==
    LET playingInterval == IF s.config = None THEN DefaultPlayingInterval
                           ELSE OrDefault(Val(s.config).pollingIntervalPlaying,
                                          DefaultPlayingInterval)
        idleInterval == IF s.config = None THEN DefaultIdleInterval
                        ELSE OrDefault(Val(s.config).pollingIntervalIdle,
                                       DefaultIdleInterval)
    IN IF isAnyGroupPlaying(s) THEN playingInterval ELSE idleInterval

schedulePoll(s) ==
    [s EXCEPT !.pollTimeout = [st |-> "armed", delay |-> getPollingInterval(s),
                               id |-> IF @ = NullTimer THEN 0 ELSE 1 - @.id]]

maxFailures(s) == IF s.config = None THEN DefaultMaxFailures
                  ELSE OrDefault(Val(s.config).maxConsecutiveFailures, DefaultMaxFailures)

(***************************************************************************)
(* Discovery driver                                                        *)
(***************************************************************************)
FreePromises(s) == {p \in 1..MaxProm : s.promises[p] = "free"}

CanDiscover(s) == s.asyncDevice # 0 \/ FreePromises(s) # {}

discoverGroups(s, attempts) ==
    IF s.asyncDevice = 0
    THEN LET p == SetMin(FreePromises(s)) IN
         [s EXCEPT !.asyncDevice = p, !.promises[p] = "pending",
                   !.pipes = Put(@, Stage("discover", attempts, p, {}))]
    ELSE IF s.promises[s.asyncDevice] = "pending"
    THEN [s EXCEPT !.pipes = Put(@, Stage("discover", attempts, s.asyncDevice, {}))]
    ELSE [s EXCEPT !.pipes = Put(@, Stage("getAllGroups", attempts, 0, {}))]

\* A delay that grows without a ceiling.
BackoffUncapped(attempts) == attempts * attempts * 1000

\* The delay in milliseconds of the retry after the given number of failed attempts.
Backoff(attempts) == Min(attempts * attempts, BackoffCeiling) * 1000

\* The catch handler of discoverGroups, for one pipeline.
\* A catch handler that schedules no retry.
discoverGroupsCatchGivingUp(s, attempts) == [s EXCEPT !.asyncDevice = 0]

discoverGroupsCatch(s, attempts) ==
    LET n == Min(attempts + 1, MaxAttempts) IN
    [s EXCEPT !.asyncDevice = 0,
              !.pipes = Put(@, Timer(Backoff(n), n, FALSE))]

(***************************************************************************)
(* Recovery coordinator                                                    *)
(***************************************************************************)
\* A poll cycle that was in flight when triggerRediscovery cleared the state.
Torn(c) == [c EXCEPT !.torn = TRUE]

\* listener.stopListener() of triggerRediscovery: the listener is taken to be
\* listening once the controller subscription was attempted. The promise is
\* followed where the environment can make it fail; its reactions only log.
stopListener(s) ==
    IF "stopListener" \in env.failures /\ s.zonesListener
    THEN [s EXCEPT !.pipes = Put(@, Stage("stopListener", 0, 0, {}))]
    ELSE s

\* A teardown that leaves the poll timer armed.
tearDownKeepingPollTimer(s) ==
    [stopListener(s) EXCEPT !.calls = Append(@, "teardown"),
              !.polls = IF @ = EmptyBag THEN @ ELSE BagOfAll(Torn, @),
              !.outage = "down",
              !.isRediscovering = TRUE,
              !.subscriptionCheckTimer = FALSE,
              !.subscribedDevices = {},
              !.groupHealth = 0,
              !.groups = {},
              !.asyncDevice = 0,
              !.pipes = Put(@, Timer(RediscoveryDelay, 0, TRUE))]

\* A teardown that keeps the tracked groups.
tearDownKeepingGroups(s) ==
    [stopListener(s) EXCEPT !.calls = Append(@, "teardown"),
              !.polls = IF @ = EmptyBag THEN @ ELSE BagOfAll(Torn, @),
              !.outage = "down",
              !.isRediscovering = TRUE,
              !.subscriptionCheckTimer = FALSE,
              !.pollTimeout = NullTimer,
              !.subscribedDevices = {},
              !.groupHealth = 0,
              !.asyncDevice = 0,
              !.pipes = Put(@, Timer(RediscoveryDelay, 0, TRUE))]

\* A teardown that forgets the groups known to the control commands.
tearDownForgettingGroupsById(s) ==
    [stopListener(s) EXCEPT !.calls = Append(@, "teardown"),
              !.polls = IF @ = EmptyBag THEN @ ELSE BagOfAll(Torn, @),
              !.outage = "down",
              !.isRediscovering = TRUE,
              !.subscriptionCheckTimer = FALSE,
              !.pollTimeout = NullTimer,
              !.subscribedDevices = {},
              !.groupHealth = 0,
              !.groups = {},
              !.groupsById = {},
              !.asyncDevice = 0,
              !.pipes = Put(@, Timer(RediscoveryDelay, 0, TRUE))]

\* The body of triggerRediscovery below its guard.
tearDown(s) ==
    [stopListener(s) EXCEPT !.calls = Append(@, "teardown"),
              !.polls = IF @ = EmptyBag THEN @ ELSE BagOfAll(Torn, @),
              !.outage = "down",
              !.isRediscovering = TRUE,
              !.subscriptionCheckTimer = FALSE,
              !.pollTimeout = NullTimer,
              !.subscribedDevices = {},
              !.groupHealth = 0,
              !.groups = {},
              !.asyncDevice = 0,
              !.pipes = Put(@, Timer(RediscoveryDelay, 0, TRUE))]

\* triggerRediscovery without its re-entrancy guard.
triggerRediscoveryUnguarded(s) == tearDown(s)

triggerRediscovery(s) ==
    IF s.isRediscovering
    THEN [s EXCEPT !.calls = Append(@, "skipped")]
    ELSE tearDown(s)

triggerPollingRediscovery(s) ==
    IF s.isRediscovering
    THEN [s EXCEPT !.calls = Append(@, "pollingSkipped")]
    ELSE [s EXCEPT !.calls = Append(@, "pollingTeardown"),
                   !.outage = "down",
                   !.isRediscovering = TRUE,
                   !.pollingIntervals = {},
                   !.pollingFailureCounts = [g \in GroupIds |-> None],
                   !.asyncDevice = 0,
                   !.pipes = Put(@, Timer(PollingRediscoveryDelay, 0, TRUE))]

stop(s) ==
    [s EXCEPT !.stopped = TRUE,
              !.isRediscovering = FALSE,
              !.subscriptionCheckTimer = FALSE,
              !.pollTimeout = NullTimer,
              !.pollingIntervals = {},
              !.pollingFailureCounts = [g \in GroupIds |-> None],
              !.groupHealth = 0,
              !.groups = {},
              !.subscribedDevices = {}]

(***************************************************************************)
(* Change detection: pollGroup's reaction and the push handlers            *)
(***************************************************************************)
\* A comparison of whole track objects, URI included.
trackChangedOrMoved(lastTrack, track) ==
    \/ lastTrack = None
    \/ Val(lastTrack) # track

trackChanged(lastTrack, track) ==
    \/ lastTrack = None
    \/ Val(lastTrack).title # track.title
    \/ Val(lastTrack).artist # track.artist
    \/ Val(lastTrack).album # track.album
    \/ Val(lastTrack).duration # track.duration

pollTrack(s, k, g, r) ==
    IF r.track # None /\ Val(r.track) # NullTrack
       /\ trackChanged(s.heap[k][g].lastTrack, Val(r.track))
    THEN Send([s EXCEPT !.heap[k][g].lastTrack = r.track,
                        !.trackPushed[g] = None], "SET_SONOS_CURRENT_TRACK", g)
    ELSE s

pollVolume(s, k, g, r) ==
    IF r.volume # None /\ s.heap[k][g].lastVolume # r.volume
    THEN Send([s EXCEPT !.heap[k][g].lastVolume = r.volume], "SET_SONOS_VOLUME", g)
    ELSE s

pollMuted(s, k, g, r) ==
    IF r.mute # None /\ s.heap[k][g].lastMuted # r.mute
    THEN Send([s EXCEPT !.heap[k][g].lastMuted = r.mute], "SET_SONOS_MUTE", g)
    ELSE s

pollState(s, k, g, r) ==
    IF r.state # None /\ s.heap[k][g].playState # Val(r.state)
    THEN Send([s EXCEPT !.heap[k][g].playState = Val(r.state)], "SET_SONOS_PLAY_STATE", g)
    ELSE s

\* A reaction that never counts a failure.
pollGroupThenForgiving(s, k, g, r) ==
    LET s0 == [s EXCEPT !.heap[k][g].consecutiveFailures = 0] IN
    pollState(pollMuted(pollVolume(pollTrack(s0, k, g, r), k, g, r), k, g, r), k, g, r)

\* A reaction that counts a cycle with any failed fetch as a failure.
pollGroupThenStrict(s, k, g, r) ==
    IF \E f \in Fields : r[f] = None
    THEN LET s1 == [s EXCEPT !.heap[k][g].consecutiveFailures = @ + 1] IN
         IF s1.heap[k][g].consecutiveFailures >= maxFailures(s1)
         THEN triggerRediscovery(s1)
         ELSE s1
    ELSE LET s0 == [s EXCEPT !.heap[k][g].consecutiveFailures = 0] IN
         pollState(pollMuted(pollVolume(pollTrack(s0, k, g, r), k, g, r), k, g, r), k, g, r)

\* The reaction of pollGroup to its four settled fetches; k is the generation of
\* the record the call captured when it started.
pollGroupThen(s, k, g, r) ==
    IF \A f \in Fields : r[f] = None
    THEN LET s1 == [s EXCEPT !.heap[k][g].consecutiveFailures = @ + 1] IN
         IF s1.heap[k][g].consecutiveFailures >= maxFailures(s1)
         THEN triggerRediscovery(s1)
         ELSE s1
    ELSE LET s0 == [s EXCEPT !.heap[k][g].consecutiveFailures = 0] IN
         pollState(pollMuted(pollVolume(pollTrack(s0, k, g, r), k, g, r), k, g, r), k, g, r)

\* A CurrentTrack handler that does not store the track in the health record.
onCurrentTrackUnsynced(s, g, track) ==
    Send([s EXCEPT !.trackPushed[g] = Some(track)], "SET_SONOS_CURRENT_TRACK", g)

onCurrentTrack(s, g, track) ==
    Send(IF HasHealth(s, g)
         THEN [s EXCEPT !.heap[s.groupHealth][g].lastTrack = Some(track),
                        !.trackPushed[g] = Some(track)]
         ELSE [s EXCEPT !.trackPushed[g] = Some(track)], "SET_SONOS_CURRENT_TRACK", g)

onVolume(s, g, volume) ==
    Send(IF HasHealth(s, g)
         THEN [s EXCEPT !.heap[s.groupHealth][g].lastVolume = Some(volume)]
         ELSE s, "SET_SONOS_VOLUME", g)

onMuted(s, g, isMuted) ==
    Send(IF HasHealth(s, g)
         THEN [s EXCEPT !.heap[s.groupHealth][g].lastMuted = Some(isMuted)]
         ELSE s, "SET_SONOS_MUTE", g)

onPlayState(s, g, state) ==
    Send(IF HasHealth(s, g)
         THEN [s EXCEPT !.heap[s.groupHealth][g].playState = state]
         ELSE s, "SET_SONOS_PLAY_STATE", g)

\* The finally-reaction of a poll cycle armed by schedulePoll.
pollCycleFinally(s) ==
    IF s.pollTimeout # NullTimer THEN schedulePoll(s) ELSE s

(***************************************************************************)
(* Group materialisation                                                   *)
(***************************************************************************)
\* group: the members, each with its ZoneName or None; rooms: None when absent,
\* else the entries, each a string or None for a value that is not a string.
shouldIncludeGroup(group, rooms) ==
    IF rooms = None \/ rooms = Some({}) THEN TRUE
    ELSE LET zoneNames == {ToLowerCase(Val(m)) : m \in {x \in group : x # None}}
             normalizedRooms == {ToLowerCase(Val(r)) : r \in {x \in Val(rooms) : x # None}}
         IN \E zone \in zoneNames : zone \in normalizedRooms

\* The listening mode that hybridMode selects even when listenWithPolling is set.
ListeningModeHybridFirst(cfg) ==
    IF cfg.hybridMode THEN "hybrid"
    ELSE IF cfg.listenWithPolling THEN "polling"
    ELSE "events"

ListeningMode(cfg) ==
    IF cfg.listenWithPolling THEN "polling"
    ELSE IF cfg.hybridMode THEN "hybrid"
    ELSE "events"

FreeGens(s) == {k \in 1..MaxGen : s.heap[k] = << >> /\ k # s.groupHealth}

\* A setup that stores the device handle before the subscribe call has settled.
setListenersHybridEager(s, gs) ==
    LET k == SetMin(FreeGens(s)) IN
    [s EXCEPT !.setups = Append(@, "setListenersHybrid"),
              !.groups = gs,
              !.subscribedDevices = {},
              !.pollTimeout = NullTimer,
              !.groupHealth = k,
              !.heap[k] = [g \in gs |-> [NewHealth EXCEPT !.device = "dev"]],
              !.subs = Put(@, [pending |-> gs])]

setListenersHybrid(s, gs) ==
    LET k == SetMin(FreeGens(s)) IN
    [s EXCEPT !.setups = Append(@, "setListenersHybrid"),
              !.groups = gs,
              !.subscribedDevices = {},
              !.pollTimeout = NullTimer,
              !.groupHealth = k,
              !.heap[k] = [g \in gs |-> NewHealth],
              !.subs = Put(@, [pending |-> gs])]

startSubscriptionHealthCheck(s) ==
    IF s.config = None \/ ~Val(s.config).autoResubscribe
    THEN s
    ELSE [s EXCEPT !.subscriptionCheckTimer = TRUE]

\* The reaction of setListenersHybrid once every subscribeTo call has settled.
hybridSubscribed(s) ==
    LET playingInterval == IF s.config = None THEN DefaultPlayingInterval
                           ELSE Coalesce(Val(s.config).pollingIntervalPlaying,
                                         DefaultPlayingInterval) IN
    startSubscriptionHealthCheck(IF playingInterval = 0 THEN s ELSE schedulePoll(s))

(***************************************************************************)
(* Polling-only mode                                                       *)
(***************************************************************************)
NewClosure(g) == [g |-> g, lastTrack |-> None, lastVolume |-> None,
                  lastMute |-> None, lastState |-> None]

\* The forEach of setListenersPolling: one closure, counter and interval per group.
RECURSIVE registerPolling(_, _)
registerPolling(s, todo) ==
    IF todo = {} THEN s
    ELSE LET g == SetMin(todo)
             i == SetMin({j \in FreeIntervals(s) : s.closures[j] = None})
         IN registerPolling([s EXCEPT !.closures[i] = Some(NewClosure(g)),
                                      !.pollingFailureCounts[g] = Some(0),
                                      !.pollingIntervals = @ \cup {i}],
                            todo \ {g})

setListenersPolling(s, gs) ==
    registerPolling([s EXCEPT !.setups = Append(@, "setListenersPolling"),
                              !.pollingIntervals = {},
                              !.pollingFailureCounts = [g \in GroupIds |-> None]], gs)

\* x++ of JavaScript on a counter that may be undefined or NaN.
Increment(x) == IF x = None THEN None ELSE Some(Val(x) + 1)

\* x >= n of JavaScript: false for NaN.
AtLeast(x, n) == x # None /\ Val(x) >= n

tickTrack(s, i, r) ==
    IF r.track # None /\ trackChanged(Val(s.closures[i]).lastTrack, Val(r.track))
    THEN Send([s EXCEPT !.closures[i] = Some([Val(@) EXCEPT !.lastTrack = r.track])],
              "SET_SONOS_CURRENT_TRACK", Val(s.closures[i]).g)
    ELSE s

tickVolume(s, i, r) ==
    IF r.volume # None /\ Val(s.closures[i]).lastVolume # r.volume
    THEN Send([s EXCEPT !.closures[i] = Some([Val(@) EXCEPT !.lastVolume = r.volume])],
              "SET_SONOS_VOLUME", Val(s.closures[i]).g)
    ELSE s

tickMute(s, i, r) ==
    IF r.mute # None /\ Val(s.closures[i]).lastMute # r.mute
    THEN Send([s EXCEPT !.closures[i] = Some([Val(@) EXCEPT !.lastMute = r.mute])],
              "SET_SONOS_MUTE", Val(s.closures[i]).g)
    ELSE s

tickState(s, i, r) ==
    IF r.state # None /\ Val(s.closures[i]).lastState # r.state
    THEN Send([s EXCEPT !.closures[i] = Some([Val(@) EXCEPT !.lastState = r.state])],
              "SET_SONOS_PLAY_STATE", Val(s.closures[i]).g)
    ELSE s

\* The four comparisons of an interval callback; reading the title of a null
\* track throws and ends the callback.
tickFields(s, i, r) ==
    IF r.track = Some(NullTrack) THEN s
    ELSE tickState(tickMute(tickVolume(tickTrack(s, i, r), i, r), i, r), i, r)

\* A callback that counts a cycle with any failed fetch as a failure.
pollingTickStrict(s, i, r) ==
    LET g == Val(s.closures[i]).g IN
    IF \E f \in Fields : r[f] = None
    THEN LET s1 == [s EXCEPT !.pollingFailureCounts[g] = Increment(@)] IN
         IF AtLeast(s1.pollingFailureCounts[g], maxFailures(s1))
         THEN triggerPollingRediscovery(s1)
         ELSE tickFields(s1, i, r)
    ELSE tickFields([s EXCEPT !.pollingFailureCounts[g] = Some(0)], i, r)

\* The reaction of the interval callback of closure i to its four settled fetches.
pollingTick(s, i, r) ==
    LET g == Val(s.closures[i]).g IN
    IF \A f \in Fields : r[f] = None
    THEN LET s1 == [s EXCEPT !.pollingFailureCounts[g] = Increment(@)] IN
         IF AtLeast(s1.pollingFailureCounts[g], maxFailures(s1))
         THEN triggerPollingRediscovery(s1)
         ELSE tickFields(s1, i, r)
    ELSE tickFields([s EXCEPT !.pollingFailureCounts[g] = Some(0)], i, r)

(***************************************************************************)
(* Hybrid mode of src/node_helper.js: events, backup polling and watchdog  *)
(***************************************************************************)
stopWatchdog(s) == [s EXCEPT !.watchdogTimer = FALSE]

updateWatchdogTimestamp(s) == [s EXCEPT !.lastUpdateTimestamp = Some(s.now)]

startWatchdog(s) ==
    IF s.config # None /\ Val(s.config).listenWithPolling THEN s
    ELSE [stopWatchdog(s) EXCEPT !.lastUpdateTimestamp = Some(s.now),
                                 !.watchdogStarted = Some(s.now),
                                 !.watchdogTimer = TRUE]

maxSilentPeriod(s) ==
    IF s.config = None THEN DefaultMaxSilentPeriod
    ELSE OrDefault(Val(s.config).maxSilentPeriod, DefaultMaxSilentPeriod)

\* triggerRediscovery of src/node_helper.js.
triggerRediscoveryV1(s) ==
    IF s.isRediscovering
    THEN [s EXCEPT !.calls = Append(@, "skipped")]
    ELSE [stopWatchdog(s) EXCEPT !.calls = Append(@, "teardown"),
                                 !.outage = "down",
                                 !.isRediscovering = TRUE,
                                 !.subscribedDevices = {},
                                 !.asyncDevice = 0,
                                 !.pipes = Put(@, Timer(RediscoveryDelay, 0, TRUE))]

\* The callback of the watchdog interval; Date.now() - null is Date.now().
watchdogCheck(s) ==
    LET timeSinceLastUpdate ==
            IF s.lastUpdateTimestamp = None THEN (s.now + MaxTime + 1) * ClockStep
            ELSE (s.now - Val(s.lastUpdateTimestamp)) * ClockStep
    IN IF timeSinceLastUpdate > maxSilentPeriod(s) THEN triggerRediscoveryV1(s) ELSE s

\* The CurrentTrack, Volume, Muted and PlayState handlers of setListenersHybrid.
onEventV1(s, g, type) == Send(updateWatchdogTimestamp(s), type, g)

RECURSIVE registerBackup(_, _)
registerBackup(s, todo) ==
    IF todo = {} THEN s
    ELSE LET g == SetMin(todo)
             i == SetMin({j \in FreeIntervals(s) : s.closures[j] = None})
         IN registerBackup([s EXCEPT !.closures[i] = Some(NewClosure(g)),
                                     !.pollingIntervals = @ \cup {i}],
                           todo \ {g})

setListenersHybridV1(s, gs) ==
    startWatchdog(registerBackup([s EXCEPT !.setups = Append(@, "setListenersHybrid"),
                                           !.subscribedDevices = gs,
                                           !.pollingIntervals = {}], gs))

backupTrack(s, i, r) ==
    IF r.track # None /\ Val(r.track) # NullTrack
       /\ (\/ Val(s.closures[i]).lastTrack = None
           \/ Val(Val(s.closures[i]).lastTrack).title # Val(r.track).title
           \/ Val(Val(s.closures[i]).lastTrack).artist # Val(r.track).artist)
    THEN Send([s EXCEPT !.closures[i] = Some([Val(@) EXCEPT !.lastTrack = r.track])],
              "SET_SONOS_CURRENT_TRACK", Val(s.closures[i]).g)
    ELSE s

\* A backup poll that never refreshes the watchdog timestamp.
backupTickSilent(s, i, r) ==
    tickState(tickMute(tickVolume(backupTrack(s, i, r), i, r), i, r), i, r)

\* The reaction of a backup polling interval to its four settled fetches.
backupTick(s, i, r) ==
    LET s1 == IF \E f \in Fields : r[f] # None THEN updateWatchdogTimestamp(s) ELSE s IN
    tickState(tickMute(tickVolume(backupTrack(s1, i, r), i, r), i, r), i, r)

(***************************************************************************)
(* Events-only mode                                                        *)
(***************************************************************************)
setListeners(s, gs) ==
    [s EXCEPT !.setups = Append(@, "setListeners"),
              !.subscribedDevices = {},
              !.eventSubs = @ (+) SetToBag(gs)]

\* setGroups once the initial snapshot of every filtered group has settled;
\* valid are the groups whose track fetch succeeded.
setGroupsThen(s, filtered, valid) ==
    IF valid = {} /\ filtered # {}
    THEN [s EXCEPT !.pipes = Put(@, Timer(SetGroupsRetryDelay, 0, FALSE))]
    ELSE LET s1 == [Send(s, "SET_SONOS_GROUPS", 0)
                       EXCEPT !.groupsById = valid,
                              !.outage = IF @ = "never" THEN @ ELSE "restored",
                              !.trackPushed = [g \in GroupIds |-> None]] IN
         IF valid = {} THEN s1
         ELSE IF s.config # None /\ ListeningMode(Val(s.config)) = "polling"
         THEN setListenersPolling(s1, valid)
         ELSE IF s.config # None /\ ListeningMode(Val(s.config)) = "hybrid"
         THEN IF env.source = "node_helper.js"
              THEN setListenersHybridV1(s1, valid)
              ELSE setListenersHybrid(s1, valid)
         ELSE setListeners(s1, valid)

setGroups(s, topology, attempts) ==
    IF topology # {} /\ s.config = None
    THEN discoverGroupsCatch(s, attempts)
    ELSE LET filtered == {g \in topology : shouldIncludeGroup(Members(g), Val(s.config).rooms)} IN
         IF filtered = {}
         THEN setGroupsThen(s, {}, {})
         ELSE [s EXCEPT !.pipes = Put(@, Stage("snapshot", 0, 0, filtered))]

(***************************************************************************)
(* Control commands                                                        *)
(***************************************************************************)
\* The values a SONOS_SET_VOLUME payload can carry: a number (its integer part
\* n and whether a fraction follows), NaN, null, or a string (the integer it
\* starts with, if any, and whether other characters follow).
JsNumbers == [t : {"number"}, n : {-5, 0, 42, 100, 150}, frac : BOOLEAN]

JsStrings == [t : {"string"}, lead : {None, Some(-5), Some(42), Some(150)}, junk : BOOLEAN]

JsValues == JsNumbers \cup JsStrings \cup {[t |-> "null"], [t |-> "NaN"]}

\* parseInt(v, 10): the leading integer of String(v), None for NaN.
parseInt(v) ==
    CASE v.t = "number" -> Some(v.n)
      [] v.t = "string" -> v.lead
      [] OTHER -> None

\* Math.min and Math.max with one numeric argument; NaN stays NaN.
MathMin(a, x) == IF x = None THEN None ELSE Some(IF a < Val(x) THEN a ELSE Val(x))

MathMax(a, x) == IF x = None THEN None ELSE Some(IF a > Val(x) THEN a ELSE Val(x))

DeviceCall(s, op, groupId, v, args) ==
    [s EXCEPT !.command = [op |-> op, groupId |-> groupId, arg |-> v,
                           sent |-> IF args = None THEN << >>
                                    ELSE << [g |-> groupId, args |-> Val(args)] >>]]

handleTogglePlayPause(s, groupId) ==
    DeviceCall(s, "togglePlayback", groupId, None,
               IF groupId \in s.groupsById THEN Some(<< >>) ELSE None)

handleNext(s, groupId) ==
    DeviceCall(s, "next", groupId, None,
               IF groupId \in s.groupsById THEN Some(<< >>) ELSE None)

handleSetVolume(s, groupId, v) ==
    LET volume == MathMax(0, MathMin(100, parseInt(v))) IN
    DeviceCall(s, "setVolume", groupId, Some(v),
               IF groupId \in s.groupsById /\ volume # None
               THEN Some(<< Val(volume) >>) ELSE None)

(***************************************************************************)
(* Subscription health check                                               *)
(***************************************************************************)
\* A renewal that is started without looking for the subscription object.
renewDeviceSubscriptionsUnchecked(s, found) == [s EXCEPT !.renewals = @ + 1]

renewDeviceSubscriptions(s, found) ==
    IF ~found THEN triggerRediscovery(s)
    ELSE [s EXCEPT !.renewals = @ + 1]

RECURSIVE healthCheckLoop(_, _, _)
healthCheckLoop(s, todo, found) ==
    IF todo = {} THEN s
    ELSE LET g == SetMin(todo)
             s1 == IF ~HasHealth(s, g) \/ Health(s, g).device = "null"
                   THEN triggerRediscovery(s)
                   ELSE renewDeviceSubscriptions(s, g \in found)
         IN healthCheckLoop(s1, todo \ {g}, found)

\* A tick that checks the subscriptions of idle groups as well.
healthCheckTickAlways(s, found) ==
    IF s.groups = {} THEN s
    ELSE healthCheckLoop(s, s.groups, found)

healthCheckTick(s, found) ==
    IF ~isAnyGroupPlaying(s) THEN s
    ELSE IF s.groups = {} THEN s
    ELSE healthCheckLoop(s, s.groups, found)

(***************************************************************************)
(* Initial state                                                           *)
(***************************************************************************)
FailureKinds == {"discover", "getAllGroups", "snapshot", "subscribe", "poll",
                 "renew", "listener"}

\* One group, every kind of failure.
HybridEnv == [tracks |-> {Song1}, volumes |-> {5}, mutes |-> {FALSE},
              states |-> {"playing", "paused"},
              patterns |-> {{}, Fields},
              topologies |-> {{1}},
              nullTracks |-> {},
              failures |-> FailureKinds,
              maxFaults |-> MaxFaults, maxZones |-> 0,
              source |-> "part_000"]

Constructed ==
    /\ config = None
    /\ isRediscovering = FALSE
    /\ asyncDevice = 0
    /\ promises = [p \in 1..MaxProm |-> "free"]
    /\ pipes = EmptyBag
    /\ zonesListener = FALSE
    /\ groups = {}
    /\ groupsById = {}
    /\ groupHealth = 0
    /\ heap = [k \in 1..MaxGen |-> << >>]
    /\ subscribedDevices = {}
    /\ pollTimeout = NullTimer
    /\ subscriptionCheckTimer = FALSE
    /\ polls = EmptyBag
    /\ subs = EmptyBag
    /\ renewals = 0
    /\ emitted = << >>
    /\ calls = << >>
    /\ last = NoObs
    /\ outage = "never"
    /\ pollingIntervals = {}
    /\ closures = [i \in 1..MaxIntervals |-> None]
    /\ pollingFailureCounts = [g \in GroupIds |-> None]
    /\ ticks = EmptyBag
    /\ eventSubs = EmptyBag
    /\ setups = << >>
    /\ now = 0
    /\ lastUpdateTimestamp = None
    /\ watchdogTimer = FALSE
    /\ lastActivity = None
    /\ watchdogStarted = None
    /\ stopped = FALSE
    /\ included = NoCall
    /\ command = NoCommand
    /\ trackPushed = [g \in GroupIds |-> None]
    /\ faults = 0
    /\ zones = 0
    /\ races = << >>

Init ==
    /\ payload = HybridPayload
    /\ env = HybridEnv
    /\ Constructed

(***************************************************************************)
(* Actions                                                                 *)
(***************************************************************************)
\* socketNotificationReceived('SONOS_START', payload)
Start ==
    /\ config = None
    /\ Become(discoverGroups([Cur EXCEPT !.config = Some(payload)], 0))

\* A retry timer of discoverGroups or setGroups, or the restart timer of
\* triggerRediscovery, fires.
TimerFire ==
    \E t \in BagToSet(pipes) :
        /\ t.stage = "timer"
        /\ LET s == [Cur EXCEPT !.pipes = Take(@, t),
                                !.isRediscovering = IF t.restart THEN FALSE ELSE @] IN
           /\ CanDiscover(s)
           /\ Become(discoverGroups(s, t.attempts))

Waiting(s, p) == {t \in BagToSet(s.pipes) : t.stage = "discover" /\ t.p = p}

Advance(t, p) == IF t.stage = "discover" /\ t.p = p
                 THEN Stage("getAllGroups", t.attempts, 0, {})
                 ELSE t

Reject(t, p) == IF t.stage = "discover" /\ t.p = p
                THEN Timer(Backoff(Min(t.attempts + 1, MaxAttempts)),
                           Min(t.attempts + 1, MaxAttempts), FALSE)
                ELSE t

\* The controller discovery promise settles: discover() and the subscription of
\* the listener to the controller, each under its timeout.
DiscoverSettle ==
    \E p \in 1..MaxProm :
        /\ promises[p] = "pending"
        /\ \/ LET Adv(t) == Advance(t, p) IN
              Become([Cur EXCEPT !.zonesListener = TRUE,
                                 !.promises[p] = "ready",
                                 !.pipes = BagOfAll(Adv, @)])
           \/ /\ CanFail("discover")
              /\ \E registered \in BOOLEAN :
                   LET Rej(t) == Reject(t, p) IN
                   Become(Fault([Cur EXCEPT !.zonesListener = @ \/ registered,
                                            !.promises[p] = "free",
                                            !.asyncDevice = 0,
                                            !.pipes = BagOfAll(Rej, @)]))

\* getAllGroups settles under its timeout.
GetAllGroupsSettle ==
    \E t \in BagToSet(pipes) :
        /\ t.stage = "getAllGroups"
        /\ LET s == [Cur EXCEPT !.pipes = Take(@, t)] IN
           \/ \E topology \in env.topologies :
                 Become(setGroups(s, topology, t.attempts))
           \/ /\ CanFail("getAllGroups")
              /\ Become(Fault(discoverGroupsCatch(s, t.attempts)))

CanSetUp(s) ==
    /\ FreeGens(s) # {}
    /\ BagCardinality(s.subs) < MaxSetups
    /\ BagCardinality(s.eventSubs) < MaxSetups
    /\ Cardinality({i \in 1..MaxIntervals : \E c \in BagToSet(s.ticks) : c.id = i})
          + Cardinality(GroupIds) <= MaxIntervals

\* The outcomes of four fetches of which those of the pattern succeed.
Results(pattern) ==
    {r \in [track : {None} \cup {Some(v) : v \in env.tracks \cup env.nullTracks},
            volume : {None} \cup {Some(v) : v \in env.volumes},
            mute : {None} \cup {Some(v) : v \in env.mutes},
            state : {None} \cup {Some(v) : v \in env.states}] :
        \A f \in Fields : (r[f] # None) <=> (f \in pattern)}

\* A filter that keeps only the groups of which all four fetches succeeded.
validItemsComplete(items) ==
    {g \in DOMAIN items : \A f \in Fields : items[g][f] # None}

\* items.filter(item => item.track !== null): a rejected currentTrack leaves
\* track null, a rejected state, volume or mute fetch leaves a default.
validItems(items) ==
    {g \in DOMAIN items : items[g].track # None /\ Val(items[g].track) # NullTrack}

\* The turn was the initial snapshot with the given settled fetches, in which
\* the groups that reported a state reported the given one.
Snapshot(s, items, state) ==
    [s EXCEPT !.last = [kind |-> "snapshot", g |-> 0, slot |-> 0,
                        r |-> [NoResults EXCEPT !.state = Some(state)],
                        h |-> NewHealth, items |-> items]]

\* The settled fetches one snapshot can produce for the given groups.
SnapshotItems(gs, state) ==
    {items \in [gs -> UNION {Results(pattern) : pattern \in env.patterns}] :
        \A g \in gs : items[g].state \in {None, Some(state)}}

\* The initial snapshot of every filtered group has settled.
SnapshotSettle ==
    \E t \in BagToSet(pipes) : \E state \in env.states :
        /\ t.stage = "snapshot"
        /\ LET s == [Cur EXCEPT !.pipes = Take(@, t)] IN
           /\ CanSetUp(s)
           /\ \E items \in SnapshotItems(t.groups, state) :
                LET failed == \E g \in t.groups : \E f \in Fields : items[g][f] = None
                    s1 == setGroupsThen(s, t.groups, validItems(items))
                IN /\ failed => CanFail("snapshot")
                   /\ Become(Snapshot(IF failed THEN Fault(s1) ELSE s1, items, state))

subscribed(s, g) ==
    IF HasHealth(s, g)
    THEN [s EXCEPT !.heap[s.groupHealth][g].device = "dev",
                   !.subscribedDevices = @ \cup {g}]
    ELSE s

\* One listener.subscribeTo(device) call of setListenersHybrid settles.
SubscribeSettle ==
    \E u \in BagToSet(subs) : \E g \in u.pending :
        LET rest == u.pending \ {g}
            left == IF rest = {} THEN Take(subs, u)
                    ELSE Put(Take(subs, u), [pending |-> rest])
            s == [Cur EXCEPT !.subs = left]
            Done(x) == IF rest = {} THEN hybridSubscribed(x) ELSE x
            Mark(x, kind) == [x EXCEPT !.last = [NoObs EXCEPT !.kind = kind, !.g = g]]
        IN \/ Become(Mark(Done(subscribed(s, g)), "subscribed"))
           \/ /\ CanFail("subscribe")
              /\ Become(Mark(Fault(Done(s)), "subscribeFailed"))

\* One listener.subscribeTo(device) call of setListeners settles.
EventSubscribeSettle ==
    \E g \in BagToSet(eventSubs) :
        LET s == [Cur EXCEPT !.eventSubs = Take(@, g)] IN
        \/ Become([s EXCEPT !.subscribedDevices = @ \cup {g}])
        \/ /\ CanFail("subscribe")
           /\ Become(Fault(s))

\* An interval of polling-only mode fires and starts its four fetches.
IntervalFire ==
    \E i \in pollingIntervals :
        /\ BagCardinality(ticks) < MaxTicks
        /\ Become([Cur EXCEPT !.ticks = Put(@, [id |-> i])])

\* The four fetches of one interval callback have settled.
IntervalSettle ==
    \E c \in BagToSet(ticks) : \E pattern \in env.patterns :
        /\ pattern = Fields \/ CanFail("poll")
        /\ \E r \in Results(pattern) :
            LET s == pollingTick([Cur EXCEPT !.ticks = Take(@, c)], c.id, r) IN
            Become([s EXCEPT !.last = [kind |-> "tick", g |-> Val(closures[c.id]).g,
                                       slot |-> c.id, r |-> r, h |-> NewHealth],
                             !.faults = IF pattern = Fields THEN @ ELSE @ + 1])

\* src/node_helper.js: the four fetches of one backup poll have settled.
BackupIntervalSettle ==
    \E c \in BagToSet(ticks) : \E pattern \in env.patterns :
        /\ pattern = Fields \/ CanFail("poll")
        /\ \E r \in Results(pattern) :
            LET s == backupTick([Cur EXCEPT !.ticks = Take(@, c)], c.id, r) IN
            Become([s EXCEPT !.last = [kind |-> "tick", g |-> Val(closures[c.id]).g,
                                       slot |-> c.id, r |-> r, h |-> NewHealth],
                             !.lastActivity = IF pattern = {} THEN @ ELSE Some(now),
                             !.faults = IF pattern = Fields THEN @ ELSE @ + 1])

\* src/node_helper.js: a subscribed device emits one of its four events.
PushEventV1 ==
    \E g \in subscribedDevices :
    \E type \in {"SET_SONOS_CURRENT_TRACK", "SET_SONOS_VOLUME", "SET_SONOS_MUTE",
                  "SET_SONOS_PLAY_STATE"} :
        Become([onEventV1(Cur, g, type) EXCEPT !.last = [NoObs EXCEPT !.kind = "push", !.g = g],
                                               !.lastActivity = Some(now)])

\* src/node_helper.js: the watchdog interval fires.
WatchdogCheck ==
    /\ watchdogTimer
    /\ Become([watchdogCheck(Cur) EXCEPT !.last = [NoObs EXCEPT !.kind = "watchdog"]])

\* src/node_helper.js: the listener emits 'error'.
ListenerErrorV1 ==
    /\ zonesListener
    /\ CanFail("listener")
    /\ Become(Fault(triggerRediscoveryV1(Cur)))

\* A clock step passes.
ClockTick ==
    /\ now < MaxTime
    /\ Become([Cur EXCEPT !.now = @ + 1])

\* MagicMirror shuts the helper down.
Stop ==
    /\ ~stopped
    /\ Become(stop(Cur))

\* The poll timer fires: pollAllGroups starts one pollGroup per tracked group.
PollTimerFire ==
    /\ pollTimeout.st = "armed"
    /\ BagCardinality(polls) < MaxCycles
    /\ LET s == [Cur EXCEPT !.pollTimeout.st = "fired"]
           pending == {g \in groups : HasHealth(s, g)}
       IN IF pending = {}
          THEN Become(pollCycleFinally(s))
          ELSE Become([s EXCEPT !.polls = Put(@, [slot |-> groupHealth,
                                                  pending |-> pending,
                                                  crossed |-> 0, tears |-> 0,
                                                  torn |-> FALSE])])

\* The four fetches of one pollGroup call have settled.
PollGroupSettle ==
    \E c \in BagToSet(polls) : \E g \in c.pending : \E pattern \in env.patterns :
        /\ pattern = Fields \/ CanFail("poll")
        /\ \E r \in Results(pattern) :
            LET rest == c.pending \ {g}
                s == pollGroupThen([Cur EXCEPT !.polls = Take(@, c)], c.slot, g, r)
                c1 == [c EXCEPT !.pending = rest,
                                !.crossed = @ + Len(s.calls),
                                !.tears = @ + Count(s.calls, "teardown"),
                                !.torn = @ \/ Count(s.calls, "teardown") > 0]
                s1 == [s EXCEPT !.polls = IF rest = {} THEN @ ELSE Put(@, c1),
                                !.last = [kind |-> "poll", g |-> g, slot |-> c.slot,
                                          r |-> r, h |-> s.heap[c.slot][g]],
                                !.faults = IF pattern = Fields THEN @ ELSE @ + 1]
            IN Become(IF rest = {} THEN pollCycleFinally(s1) ELSE s1)

\* A push event of a subscribed device.
Pushed(s, g, f, v) ==
    [s EXCEPT !.last = [kind |-> "push", g |-> g, slot |-> s.groupHealth,
                        r |-> [NoResults EXCEPT ![f] = Some(v)],
                        h |-> IF HasHealth(s, g) THEN Health(s, g) ELSE NewHealth]]

PushCurrentTrack ==
    \E g \in subscribedDevices : \E v \in env.tracks :
        Become(Pushed(onCurrentTrack(Cur, g, v), g, "track", v))

PushVolume ==
    \E g \in subscribedDevices : \E v \in env.volumes :
        Become(Pushed(onVolume(Cur, g, v), g, "volume", v))

PushMuted ==
    \E g \in subscribedDevices : \E v \in env.mutes :
        Become(Pushed(onMuted(Cur, g, v), g, "mute", v))

PushPlayState ==
    \E g \in subscribedDevices : \E v \in env.states :
        Become(Pushed(onPlayState(Cur, g, v), g, "state", v))

\* The turn was a tick of the health check; found are the groups whose
\* subscription object the listener holds.
Checked(s, found) ==
    [s EXCEPT !.last = [kind |-> "health", g |-> 0, slot |-> groupHealth, r |-> NoResults,
                        h |-> NewHealth, found |-> found]]

\* The subscription health check interval fires.
HealthCheckTick ==
    /\ subscriptionCheckTimer
    /\ renewals = 0
    /\ \/ Become(Checked(healthCheckTick(Cur, groups), groups))
       \/ /\ CanFail("renew")
          /\ \E found \in SUBSET groups :
               /\ found # groups
               /\ Become(Checked(Fault(healthCheckTick(Cur, found)), found))

\* renewAllSubscriptions settles under its timeout.
RenewSettle ==
    /\ renewals > 0
    /\ LET s == [Cur EXCEPT !.renewals = @ - 1] IN
       \/ Become([s EXCEPT !.last = [NoObs EXCEPT !.kind = "renewed"]])
       \/ /\ CanFail("renew")
          /\ Become([Fault(triggerRediscovery(s))
                        EXCEPT !.last = [NoObs EXCEPT !.kind = "renewFailed"]])

\* A handler that reacts in hybrid mode only.
handleListenerErrorHybridOnly(s) ==
    IF s.config # None /\ ListeningMode(Val(s.config)) = "hybrid"
    THEN triggerRediscovery(s)
    ELSE s

handleListenerError(s) == triggerRediscovery(s)

\* The listener emits 'error'.
ListenerError ==
    /\ zonesListener
    /\ CanFail("listener")
    /\ Become([Fault(handleListenerError(Cur))
                  EXCEPT !.last = [NoObs EXCEPT !.kind = "listenerError"]])

\* The stopListener call of a teardown settles; both reactions only log.
StopListenerSettle ==
    \E t \in BagToSet(pipes) :
        /\ t.stage = "stopListener"
        /\ LET s == [Cur EXCEPT !.pipes = Take(@, t)] IN
           \/ Become([s EXCEPT !.last = [NoObs EXCEPT !.kind = "stopListenerDone"]])
           \/ /\ CanFail("stopListener")
              /\ Become([Fault(s) EXCEPT !.last = [NoObs EXCEPT !.kind = "stopListenerFailed"]])

\* The listener emits 'ZonesChanged'.
ZonesChanged ==
    /\ zonesListener
    /\ zones < env.maxZones
    /\ CanDiscover(Cur)
    /\ Become(discoverGroups([Cur EXCEPT !.zones = @ + 1], 0))

\* SONOS_TOGGLE_PLAY_PAUSE, SONOS_NEXT and SONOS_SET_VOLUME arrive.
TogglePlayPause == \E groupId \in GroupIds : Become(handleTogglePlayPause(Cur, groupId))

NextTrack == \E groupId \in GroupIds : Become(handleNext(Cur, groupId))

SetVolume ==
    \E groupId \in GroupIds : \E v \in JsValues : Become(handleSetVolume(Cur, groupId, v))

Next ==
    \/ Start
    \/ TimerFire
    \/ DiscoverSettle
    \/ GetAllGroupsSettle
    \/ SnapshotSettle
    \/ SubscribeSettle
    \/ PollTimerFire
    \/ PollGroupSettle
    \/ PushPlayState
    \/ HealthCheckTick
    \/ RenewSettle
    \/ ListenerError

Spec == Init /\ [][Next]_vars

(***************************************************************************)
(* Recovery with the poll scheduler and the health checker switched off    *)
(***************************************************************************)
MaxLiveFaults == 3

LivePayload == [HybridPayload EXCEPT !.autoResubscribe = FALSE,
                                     !.pollingIntervalPlaying = Some(0)]

LiveEnv == [HybridEnv EXCEPT !.failures = {"discover", "getAllGroups", "snapshot",
                                           "subscribe", "listener"},
                             !.maxFaults = MaxLiveFaults]

InitLive ==
    /\ payload = LivePayload
    /\ env = LiveEnv
    /\ Constructed

NextLive ==
    \/ Start
    \/ TimerFire
    \/ DiscoverSettle
    \/ GetAllGroupsSettle
    \/ SnapshotSettle
    \/ SubscribeSettle
    \/ PushPlayState
    \/ ListenerError

\* A step of the discovery pipeline: a timer fires or a pending call settles.
Progress ==
    \/ TimerFire
    \/ DiscoverSettle
    \/ GetAllGroupsSettle
    \/ SnapshotSettle
    \/ SubscribeSettle

\* The event loop keeps running the pipeline while it has a step to take: each
\* timer fires, each call under a timeout settles, and the subscribe calls are
\* taken to settle.
Fairness == WF_vars(Progress)

SpecLive == InitLive /\ [][NextLive]_vars /\ Fairness

(***************************************************************************)
(* Two groups whose polls can fail                                         *)
(***************************************************************************)
GroupsPayload == [HybridPayload EXCEPT !.autoResubscribe = FALSE,
                                       !.pollingIntervalPlaying = Some(5000),
                                       !.pollingIntervalIdle = Some(30000)]

GroupsEnv == [HybridEnv EXCEPT !.topologies = {{1, 2}},
                               !.states = {"playing", "paused"},
                               !.failures = {"poll"}]

InitGroups ==
    /\ payload = GroupsPayload
    /\ env = GroupsEnv
    /\ Constructed

NextGroups ==
    \/ Start
    \/ TimerFire
    \/ DiscoverSettle
    \/ GetAllGroupsSettle
    \/ SnapshotSettle
    \/ SubscribeSettle
    \/ PollTimerFire
    \/ PollGroupSettle

SpecGroups == InitGroups /\ [][NextGroups]_vars

(***************************************************************************)
(* The change detector on one tracked group                                *)
(***************************************************************************)
MaxPollFaults == 1

Song2 == [Song1 EXCEPT !.title = 2]

\* Song1 again under another URI, and Song1 with one tuple component changed.
SongVariants == {tr \in AllTracks :
                    Cardinality({f \in DOMAIN tr : tr[f] # Song1[f]}) <= 1}

DetectPayload == [HybridPayload EXCEPT !.autoResubscribe = FALSE,
                                       !.maxConsecutiveFailures = None]

DetectEnv == [tracks |-> {Song1, Song2}, volumes |-> {5, 6}, mutes |-> {FALSE, TRUE},
              states |-> {"playing", "paused"},
              patterns |-> SUBSET Fields,
              topologies |-> {{1}},
              nullTracks |-> {},
              failures |-> {"poll"},
              maxFaults |-> MaxPollFaults, maxZones |-> 0]

TracksEnv == [DetectEnv EXCEPT !.tracks = SongVariants, !.volumes = {5},
                               !.mutes = {FALSE}, !.states = {"playing"},
                               !.nullTracks = {NullTrack}]

\* The health records group 1 can have once it is tracked and subscribed.
Records ==
    [device : {"dev"},
     playState : {"unknown"} \cup env.states,
     consecutiveFailures : 0..1,
     lastTrack : {None} \cup {Some(v) : v \in env.tracks},
     lastVolume : {None} \cup {Some(v) : v \in env.volumes},
     lastMuted : {None} \cup {Some(v) : v \in env.mutes}]

\* Group 1 is tracked, subscribed and polled; no call is in flight.
Tracking ==
    /\ config = Some(payload)
    /\ isRediscovering = FALSE
    /\ asyncDevice = 1
    /\ promises = [p \in 1..MaxProm |-> IF p = 1 THEN "ready" ELSE "free"]
    /\ pipes = EmptyBag
    /\ zonesListener = TRUE
    /\ groups = {1}
    /\ groupsById = {1}
    /\ groupHealth = 1
    /\ \E h \in Records :
         /\ heap = [k \in 1..MaxGen |-> IF k = 1 THEN [g \in {1} |-> h] ELSE << >>]
         /\ pollTimeout = [st |-> "armed", id |-> 0,
                           delay |-> IF h.playState = "playing"
                                     THEN Val(payload.pollingIntervalPlaying)
                                     ELSE Val(payload.pollingIntervalIdle)]
    /\ subscribedDevices = {1}
    /\ subscriptionCheckTimer = FALSE
    /\ polls = EmptyBag
    /\ subs = EmptyBag
    /\ renewals = 0
    /\ emitted = << >>
    /\ calls = << >>
    /\ last = NoObs
    /\ outage = "never"
    /\ pollingIntervals = {}
    /\ closures = [i \in 1..MaxIntervals |-> None]
    /\ pollingFailureCounts = [g \in GroupIds |-> None]
    /\ ticks = EmptyBag
    /\ eventSubs = EmptyBag
    /\ setups = << >>
    /\ now = 0
    /\ lastUpdateTimestamp = None
    /\ watchdogTimer = FALSE
    /\ lastActivity = None
    /\ watchdogStarted = None
    /\ stopped = FALSE
    /\ included = NoCall
    /\ command = NoCommand
    /\ trackPushed = [g \in GroupIds |-> None]
    /\ faults = 0
    /\ zones = 0
    /\ races = << >>

InitDetect ==
    /\ payload = DetectPayload
    /\ env = DetectEnv
    /\ Tracking

InitTracks ==
    /\ payload = DetectPayload
    /\ env = TracksEnv
    /\ Tracking

NextDetect ==
    \/ PollTimerFire
    \/ PollGroupSettle
    \/ PushCurrentTrack
    \/ PushVolume
    \/ PushMuted
    \/ PushPlayState

SpecDetect == InitDetect /\ [][NextDetect]_vars

\* The control commands on one known group.
NextControl ==
    \/ TogglePlayPause
    \/ NextTrack
    \/ SetVolume

SpecControl == InitTracks /\ [][NextControl]_vars

SpecTracks == InitTracks /\ [][NextDetect]_vars

(***************************************************************************)
(* Properties of the recovery coordinator                                  *)
(***************************************************************************)
FieldNotifications == {"SET_SONOS_CURRENT_TRACK", "SET_SONOS_VOLUME",
                       "SET_SONOS_MUTE", "SET_SONOS_PLAY_STATE"}

NotificationOf(f) == CASE f = "track" -> "SET_SONOS_CURRENT_TRACK"
                       [] f = "volume" -> "SET_SONOS_VOLUME"
                       [] f = "mute" -> "SET_SONOS_MUTE"
                       [] f = "state" -> "SET_SONOS_PLAY_STATE"

\* The number of notifications of field f for group g in a turn's output.
Events(out, f, g) ==
    Cardinality({i \in DOMAIN out : out[i] = [type |-> NotificationOf(f), g |-> g]})

SameTuple(a, b) ==
    /\ a.title = b.title
    /\ a.artist = b.artist
    /\ a.album = b.album
    /\ a.duration = b.duration

\* What a record stores for a field, as an observation would carry it.
Stored(h, f) == CASE f = "track" -> h.lastTrack
                  [] f = "volume" -> h.lastVolume
                  [] f = "mute" -> h.lastMuted
                  [] f = "state" -> Some(h.playState)

\* The observed value v of field f differs from what record h stores.
Differs(h, f, v) ==
    IF f = "track"
    THEN h.lastTrack = None \/ ~SameTuple(Val(h.lastTrack), v)
    ELSE Stored(h, f) # Some(v)

RestartTimers == CopiesIn(Timer(RediscoveryDelay, 0, TRUE), pipes)

\* C1: a turn that calls triggerRediscovery while isRediscovering is already
\* true leaves the flag true, schedules no further delayed restart and undoes
\* nothing that the teardown would clear: the tracked groups, the health
\* records, the subscribed devices, the controller promise, the health-check
\* timer and an armed poll timer all survive the call.
C1_TriggerWhileRediscoveringIsNoOp ==
    [][(isRediscovering /\ calls' # << >>) =>
          /\ isRediscovering'
          /\ RestartTimers' = RestartTimers
          /\ groups' = groups
          /\ groupHealth' = groupHealth
          /\ subscribedDevices' = subscribedDevices
          /\ asyncDevice' = asyncDevice
          /\ subscriptionCheckTimer' = subscriptionCheckTimer
          /\ (pollTimeout # NullTimer => pollTimeout' # NullTimer)]_vars

\* A call was skipped while groups set up by a pipeline that was in flight at
\* the teardown are tracked again: there is state a second teardown would clear.
C1_SkippedCallReached ==
    /\ isRediscovering
    /\ calls = << "skipped" >>
    /\ RestartTimers = 1
    /\ groups # {}
    /\ groupHealth # 0

\* C9: from the teardown of triggerRediscovery until the next SET_SONOS_GROUPS
\* no track, volume, mute or play-state notification is sent.
C9_NoFieldNotificationDuringOutage ==
    outage = "down" => \A i \in DOMAIN emitted : emitted[i].type \notin FieldNotifications

\* C10: with timers that fire, calls that settle and finitely many failures,
\* every entry into Rediscovering is followed by a SET_SONOS_GROUPS.
C10_RediscoveryEndsInSnapshot ==
    isRediscovering ~> (\E i \in DOMAIN emitted : emitted[i].type = "SET_SONOS_GROUPS")

\* A SET_SONOS_GROUPS has ended an outage and the restart has run.
C10_Restored ==
    /\ outage = "restored"
    /\ ~isRediscovering
    /\ \E i \in DOMAIN emitted : emitted[i].type = "SET_SONOS_GROUPS"

(***************************************************************************)
(* Properties of the adaptive poll scheduler with two groups               *)
(***************************************************************************)
\* C2: the pollGroup completions of one poll cycle in which several groups
\* reached the failure maximum cause exactly one teardown between them.
C2_OneRecoveryPerCycle ==
    [][\A c \in BagToSet(polls) :
          (/\ CopiesIn(c, polls') < CopiesIn(c, polls)
           /\ Cardinality(c.pending) = 1
           /\ c.crossed + Len(calls') >= 2)
          => c.tears + Count(calls', "teardown") = 1]_vars

\* C8: whenever a turn arms the poll timer, the delay is the configured playing
\* interval if some record of groupHealth has playState 'playing' and the
\* configured idle interval otherwise.
C8_DelayFollowsPlayState ==
    [][(pollTimeout' # pollTimeout /\ pollTimeout'.st = "armed") =>
          pollTimeout'.delay =
              IF /\ groupHealth' # 0
                 /\ \E g \in DOMAIN heap'[groupHealth'] :
                       heap'[groupHealth'][g].playState = "playing"
              THEN Val(payload.pollingIntervalPlaying)
              ELSE Val(payload.pollingIntervalIdle)]_vars

\* A poll cycle has just ended and re-armed the timer with the playing interval
\* while one group plays and the other is paused.
C8_MixedStatesArmed ==
    /\ last.kind = "poll"
    /\ polls = EmptyBag
    /\ pollTimeout.st = "armed"
    /\ pollTimeout.delay = Val(payload.pollingIntervalPlaying)
    /\ groupHealth # 0
    /\ DOMAIN heap[groupHealth] = {1, 2}
    /\ heap[groupHealth][1].playState = "paused"
    /\ heap[groupHealth][2].playState = "playing"

(***************************************************************************)
(* Properties of the change detector                                       *)
(***************************************************************************)
\* C3: a pollGroup completion whose four fetches all failed adds exactly one to
\* the record's consecutiveFailures, leaves every other field of the record as
\* it was and sends no notification.
C3_TotalFailureCountsOnce ==
    [][(last'.kind = "poll" /\ last'.r = NoResults) =>
          /\ last'.h = [heap[last'.slot][last'.g] EXCEPT !.consecutiveFailures = @ + 1]
          /\ emitted' = << >>]_vars

\* A second total failure in a row on a record that holds values.
C3_SecondTotalFailure ==
    /\ last.kind = "poll"
    /\ last.r = NoResults
    /\ last.h.consecutiveFailures = 2
    /\ last.h.lastTrack # None
    /\ last.h.lastVolume # None
    /\ last.h.playState = "playing"

\* C4: a pollGroup completion with one to three failed fetches resets
\* consecutiveFailures to 0; a field whose fetch failed keeps its stored value
\* and gets no notification; a field whose fetch succeeded ends up holding the
\* observed value.
C4_PartialFailureResets ==
    [][(/\ last'.kind = "poll"
        /\ last'.r # NoResults
        /\ \E f \in Fields : last'.r[f] = None) =>
          LET g == last'.g
              pre == heap[last'.slot][g]
              h == last'.h
          IN /\ h.consecutiveFailures = 0
             /\ h.device = pre.device
             /\ \A f \in Fields :
                   IF last'.r[f] = None
                   THEN Stored(h, f) = Stored(pre, f) /\ Events(emitted', f, g) = 0
                   ELSE ~Differs(h, f, Val(last'.r[f]))]_vars

\* Only the volume fetch succeeded, after a total failure: the counter is back
\* at 0, the volume is updated and announced, the track is kept.
C4_OnlyVolumeFetched ==
    /\ last.kind = "poll"
    /\ last.r = [NoResults EXCEPT !["volume"] = Some(6)]
    /\ last.h.consecutiveFailures = 0
    /\ last.h.lastVolume = Some(6)
    /\ last.h.lastTrack = Some(Song1)
    /\ Events(emitted, "volume", last.g) = 1
    /\ Len(emitted) = 1

\* C5: every observation applied to a record, pushed or polled, sends exactly
\* one notification for each present field that differs from the stored value
\* and none for a present field that equals it.
C5_OneEventPerChangedField ==
    [][(last'.kind \in {"poll", "push"} /\ last'.slot # 0) =>
          LET g == last'.g
              pre == heap[last'.slot][g]
          IN \A f \in Fields :
                last'.r[f] # None =>
                   Events(emitted', f, g) = IF Differs(pre, f, Val(last'.r[f])) THEN 1 ELSE 0]_vars

\* C6: once a CurrentTrack push has sent the track notification of a group, a
\* poll of that group that observes a track with the same (title, artist,
\* album, duration) sends no track notification.
C6_PollAfterPushIsSilent ==
    [][(/\ last'.kind = "poll"
        /\ trackPushed[last'.g] # None
        /\ last'.r.track # None
        /\ SameTuple(Val(last'.r.track), Val(trackPushed[last'.g]))) =>
          Events(emitted', "track", last'.g) = 0]_vars

\* A poll saw the pushed track again and kept quiet.
C6_PushedTrackPolledAgain ==
    /\ last.kind = "poll"
    /\ last.r.track # None
    /\ trackPushed[last.g] = last.r.track
    /\ last.h.lastTrack = last.r.track
    /\ Events(emitted, "track", last.g) = 0

\* C7: a polled track is announced exactly when the record stores no track or a
\* track that differs in title, artist, album or duration; the URI plays no
\* part.
C7_TrackChangeIsByTuple ==
    [][(/\ last'.kind = "poll"
        /\ last'.r.track # None
        /\ Val(last'.r.track) # NullTrack
        /\ heap[last'.slot][last'.g].lastTrack # None) =>
          (Events(emitted', "track", last'.g) =
              IF SameTuple(Val(heap[last'.slot][last'.g].lastTrack), Val(last'.r.track))
              THEN 0 ELSE 1)]_vars

\* A poll saw the stored track under another URI and kept quiet.
C7_SameTupleOtherUri ==
    /\ last.kind = "poll"
    /\ last.r.track # None
    /\ last.h.lastTrack # None
    /\ Val(last.h.lastTrack).uri # Val(last.r.track).uri
    /\ SameTuple(Val(last.h.lastTrack), Val(last.r.track))
    /\ Events(emitted, "track", last.g) = 0

(***************************************************************************)
(* The three listening modes                                               *)
(***************************************************************************)
MaxModeFaults == 2

ModePayloads ==
    {[HybridPayload EXCEPT !.listenWithPolling = p, !.hybridMode = h,
                           !.autoResubscribe = FALSE] : p \in BOOLEAN, h \in BOOLEAN}

ModesEnv == [HybridEnv EXCEPT !.failures = {"snapshot", "subscribe", "poll"},
                              !.maxFaults = MaxModeFaults]

InitModes ==
    /\ payload \in ModePayloads
    /\ env = ModesEnv
    /\ Constructed

NextModes ==
    \/ Start
    \/ TimerFire
    \/ DiscoverSettle
    \/ GetAllGroupsSettle
    \/ SnapshotSettle
    \/ SubscribeSettle
    \/ EventSubscribeSettle
    \/ PollTimerFire
    \/ PollGroupSettle
    \/ IntervalFire
    \/ IntervalSettle
    \/ PushPlayState

SpecModes == InitModes /\ [][NextModes]_vars

\* The setup the precedence polling-only > hybrid > events-only selects.
SetupByPrecedence(cfg) ==
    IF cfg.listenWithPolling THEN "setListenersPolling"
    ELSE IF cfg.hybridMode THEN "setListenersHybrid"
    ELSE "setListeners"

GroupsSent(out) == \E i \in DOMAIN out : out[i].type = "SET_SONOS_GROUPS"

\* C12: a turn in which setGroups succeeds with at least one valid group runs
\* exactly one listener setup, the one that the precedence polling-only over
\* hybrid over events-only selects, and no other turn runs a setup.
C12_OneSetupByPrecedence ==
    [][IF GroupsSent(emitted') /\ groupsById' # {}
       THEN setups' = << SetupByPrecedence(Val(config')) >>
       ELSE setups' = << >>]_vars

C12_PollingChosenOverHybrid ==
    /\ config # None
    /\ Val(config).listenWithPolling
    /\ Val(config).hybridMode
    /\ setups = << "setListenersPolling" >>
    /\ pollingIntervals # {}
    /\ pollTimeout = NullTimer

(***************************************************************************)
(* Polling-only mode with failing polls                                    *)
(***************************************************************************)
MaxPollingFaults == 4

PollingPayload == [HybridPayload EXCEPT !.listenWithPolling = TRUE,
                                        !.maxConsecutiveFailures = Some(2)]

PollingEnv == [HybridEnv EXCEPT !.patterns = {{}, {"volume"}, Fields},
                                !.states = {"playing"},
                                !.failures = {"poll", "listener"},
                                !.maxFaults = MaxPollingFaults]

InitPolling ==
    /\ payload = PollingPayload
    /\ env = PollingEnv
    /\ Constructed

NextPolling ==
    \/ Start
    \/ TimerFire
    \/ DiscoverSettle
    \/ GetAllGroupsSettle
    \/ SnapshotSettle
    \/ IntervalFire
    \/ IntervalSettle
    \/ ListenerError

SpecPolling == InitPolling /\ [][NextPolling]_vars

AllFailed(r) == \A f \in Fields : r[f] = None

\* The configured maximum, 3 when none is configured.
ConfiguredMaximum == IF payload.maxConsecutiveFailures \in {None, Some(0)}
                     THEN DefaultMaxFailures
                     ELSE Val(payload.maxConsecutiveFailures)

PollingRecoveryInvoked(cs) ==
    \E n \in DOMAIN cs : cs[n] \in {"pollingTeardown", "pollingSkipped"}

NoPollPayload == [HybridPayload EXCEPT !.pollingIntervalPlaying = Some(0)]

InitNoPoll ==
    /\ payload = NoPollPayload
    /\ env = HybridEnv
    /\ Constructed

\* PollTimerFire needs an armed poll timer and PollGroupSettle a cycle that a
\* fired timer started.
NextNoPoll ==
    \/ Start
    \/ TimerFire
    \/ DiscoverSettle
    \/ GetAllGroupsSettle
    \/ SnapshotSettle
    \/ SubscribeSettle
    \/ PushPlayState
    \/ HealthCheckTick
    \/ RenewSettle
    \/ ListenerError

SpecNoPoll == InitNoPoll /\ [][NextNoPoll]_vars

\* C16: with pollingIntervalPlaying 0 in hybrid mode no poll timer is ever armed
\* and no poll cycle is in flight, while the health check is started once the
\* subscribe calls of the current groups have settled.
C16_PollingDisabledByZero ==
    /\ pollTimeout = NullTimer
    /\ polls = EmptyBag
    /\ (groupHealth # 0 /\ subs = EmptyBag) => subscriptionCheckTimer

C16_HealthCheckWithoutPolling ==
    /\ subscriptionCheckTimer
    /\ groupHealth # 0
    /\ subscribedDevices # {}
    /\ isAnyGroupPlaying(Cur)
    /\ pollTimeout = NullTimer

(***************************************************************************)
(* Shutdown during operation                                               *)
(***************************************************************************)
StopPayload == [HybridPayload EXCEPT !.autoResubscribe = FALSE]

StopEnv == [HybridEnv EXCEPT !.failures = {"poll", "listener"}]

InitStop ==
    /\ payload = StopPayload
    /\ env = StopEnv
    /\ Constructed

NextStop ==
    \/ Start
    \/ TimerFire
    \/ DiscoverSettle
    \/ GetAllGroupsSettle
    \/ SnapshotSettle
    \/ SubscribeSettle
    \/ PollTimerFire
    \/ PollGroupSettle
    \/ ListenerError
    \/ Stop

SpecStop == InitStop /\ [][NextStop]_vars

\* The delayed restarts of triggerRediscovery and triggerPollingRediscovery that
\* have not fired yet.
PendingRestarts ==
    CopiesIn(Timer(RediscoveryDelay, 0, TRUE), pipes)
    + CopiesIn(Timer(PollingRediscoveryDelay, 0, TRUE), pipes)

\* C17: in every reachable state at most one delayed restart of discovery is
\* pending, whatever triggered the recoveries, also when stop() reset
\* isRediscovering while a restart was pending.
C17_AtMostOneRestartPending == PendingRestarts <= 1

(***************************************************************************)
(* Re-setup and recovery while a poll cycle is in flight                   *)
(***************************************************************************)
\* Poll intervals shorter than the 5000 ms that a fetch may take.
ZonesPayload == [HybridPayload EXCEPT !.autoResubscribe = FALSE,
                                      !.pollingIntervalPlaying = Some(1000),
                                      !.pollingIntervalIdle = Some(1000)]

ZonesEnv == [HybridEnv EXCEPT !.failures = {"poll"}, !.maxZones = MaxZones]

InitZones ==
    /\ payload = ZonesPayload
    /\ env = ZonesEnv
    /\ Constructed

NextZones ==
    \/ Start
    \/ TimerFire
    \/ DiscoverSettle
    \/ GetAllGroupsSettle
    \/ SnapshotSettle
    \/ SubscribeSettle
    \/ PollTimerFire
    \/ PollGroupSettle
    \/ ZonesChanged

SpecZones == InitZones /\ [][NextZones]_vars

\* C18: at any time at most one poll cycle is in flight beside the one poll
\* timer that pollTimeout holds, across timer fires, poll completions, re-setups
\* after ZonesChanged and recoveries.
C18_OnePollCycleInFlight == BagCardinality(polls) <= 1

(***************************************************************************)
(* Poll cycles that outlive a recovery                                     *)
(***************************************************************************)
\* The turn ends poll cycle c: its last pollGroup call settles.
Completes(c) ==
    /\ last'.kind = "poll"
    /\ c.slot = last'.slot
    /\ c.pending = {last'.g}
    /\ CopiesIn(c, polls') < CopiesIn(c, polls)

\* C19: the completion callback of a poll cycle that was in flight when
\* triggerRediscovery ran never calls schedulePoll, so it arms no poll timer,
\* whenever the cycle completes.
C19_TornCycleArmsNoTimer ==
    [][\A c \in BagToSet(polls) :
          (c.torn /\ Completes(c))
          => ~(pollTimeout'.st = "armed" /\ pollTimeout' # pollTimeout)]_vars

\* The turn settles a pollGroup call of cycle c.
Settles(c) ==
    /\ last'.kind = "poll"
    /\ c.slot = last'.slot
    /\ last'.g \in c.pending
    /\ CopiesIn(c, polls') < CopiesIn(c, polls)

\* C20: a pollGroup call that was in flight when triggerRediscovery cleared the
\* state discards its result when it settles: it sends no notification, leaves
\* the current health records as they are, counts no failure on its own record
\* and starts no further recovery, also after a new generation was set up.
C20_TornPollIsDiscarded ==
    [][\A c \in BagToSet(polls) :
          (c.torn /\ Settles(c))
          => /\ emitted' = << >>
             /\ calls' = << >>
             /\ groupHealth' = groupHealth
             /\ groupHealth # 0 => heap'[groupHealth] = heap[groupHealth]
             /\ last'.h.consecutiveFailures
                  <= heap[c.slot][last'.g].consecutiveFailures]_vars

(***************************************************************************)
(* The watchdog of src/node_helper.js                                      *)
(***************************************************************************)
WatchdogPayload == [HybridPayload EXCEPT !.autoResubscribe = FALSE,
                                         !.maxSilentPeriod = Some(120000)]

WatchdogEnv == [HybridEnv EXCEPT !.source = "node_helper.js",
                                 !.states = {"playing"},
                                 !.failures = {"poll", "listener"},
                                 !.maxFaults = 1,
                                 !.maxZones = MaxZones]

InitWatchdog ==
    /\ payload = WatchdogPayload
    /\ env = WatchdogEnv
    /\ Constructed

NextWatchdog ==
    \/ Start
    \/ TimerFire
    \/ DiscoverSettle
    \/ GetAllGroupsSettle
    \/ SnapshotSettle
    \/ IntervalFire
    \/ BackupIntervalSettle
    \/ PushEventV1
    \/ WatchdogCheck
    \/ ListenerErrorV1
    \/ ZonesChanged
    \/ ClockTick

SpecWatchdog == InitWatchdog /\ [][NextWatchdog]_vars

\* The configured maxSilentPeriod, 300000 when none is configured.
ConfiguredSilentPeriod == IF payload.maxSilentPeriod \in {None, Some(0)}
                          THEN DefaultMaxSilentPeriod
                          ELSE Val(payload.maxSilentPeriod)

Later(a, b) == IF a = None THEN b ELSE IF b = None THEN a
               ELSE IF Val(a) > Val(b) THEN a ELSE b

\* C13 as stated: a watchdog check invokes triggerRediscovery exactly when the
\* last push event or poll with a successful fetch lies more than
\* maxSilentPeriod back.
C13_WatchdogFiresOnSilence ==
    [][(last'.kind = "watchdog" /\ lastActivity # None)
       => (calls' # << >>
           <=> (now - Val(lastActivity)) * ClockStep > ConfiguredSilentPeriod)]_vars

\* C13 amended: a watchdog check invokes triggerRediscovery exactly when the
\* later of the last push event or poll with a successful fetch and the last
\* start of the watchdog by setListenersHybrid lies more than maxSilentPeriod
\* back; within maxSilentPeriod of either it never does.
C13_WatchdogFiresOnSilenceSinceStart ==
    [][last'.kind = "watchdog"
       => (calls' # << >>
           <=> (now - Val(Later(lastActivity, watchdogStarted))) * ClockStep
                  > ConfiguredSilentPeriod)]_vars

C13_WatchdogTriggered ==
    /\ last.kind = "watchdog"
    /\ calls = << "teardown" >>
    /\ lastActivity # None
    /\ (now - Val(lastActivity)) * ClockStep > ConfiguredSilentPeriod
    /\ ~watchdogTimer
    /\ isRediscovering

(***************************************************************************)
(* The room filter                                                         *)
(***************************************************************************)
MemberNames == {None, Some("Kitchen"), Some("KITCHEN"), Some("Living Room")}

RoomEntries == {None, Some("kitchen"), Some("Living Room"), Some("Bath")}

\* Any group and any allow-list, before shouldIncludeGroup is applied.
InitRooms ==
    /\ payload = HybridPayload
    /\ env = HybridEnv
    /\ config = Some(payload)
    /\ isRediscovering = FALSE
    /\ asyncDevice = 0
    /\ promises = [p \in 1..MaxProm |-> "free"]
    /\ pipes = EmptyBag
    /\ zonesListener = FALSE
    /\ groups = {}
    /\ groupsById = {}
    /\ groupHealth = 0
    /\ heap = [k \in 1..MaxGen |-> << >>]
    /\ subscribedDevices = {}
    /\ pollTimeout = NullTimer
    /\ subscriptionCheckTimer = FALSE
    /\ polls = EmptyBag
    /\ subs = EmptyBag
    /\ renewals = 0
    /\ pollingIntervals = {}
    /\ closures = [i \in 1..MaxIntervals |-> None]
    /\ pollingFailureCounts = [g \in GroupIds |-> None]
    /\ ticks = EmptyBag
    /\ eventSubs = EmptyBag
    /\ emitted = << >>
    /\ calls = << >>
    /\ setups = << >>
    /\ last = NoObs
    /\ outage = "never"
    /\ command = NoCommand
    /\ now = 0
    /\ lastUpdateTimestamp = None
    /\ watchdogTimer = FALSE
    /\ lastActivity = None
    /\ watchdogStarted = None
    /\ stopped = FALSE
    /\ trackPushed = [g \in GroupIds |-> None]
    /\ faults = 0
    /\ zones = 0
    /\ races = << >>
    /\ \E group \in SUBSET MemberNames :
       \E rooms \in {None} \cup {Some(e) : e \in SUBSET RoomEntries} :
          included = [group |-> group, rooms |-> rooms, result |-> None]

\* setGroups applies the filter to the group.
Include ==
    /\ included.result = None
    /\ Become([Cur EXCEPT !.included.result =
                   Some(shouldIncludeGroup(included.group, included.rooms))])

SpecRooms == InitRooms /\ [][Include]_vars

\* Two names that differ by the case of their letters at most.
SameIgnoringCase(a, b) ==
    \/ a = b
    \/ {a, b} \subseteq {"Kitchen", "KITCHEN", "kitchen"}
    \/ {a, b} \subseteq {"Living Room", "living room"}

\* C15: shouldIncludeGroup is true for every group when the allow-list is absent
\* or empty; otherwise it is true exactly when the zone name of some member
\* equals some entry of the allow-list, ignoring case.
C15_FilterMatchesIgnoringCase ==
    included.result # None =>
        Val(included.result) =
            IF included.rooms = None \/ included.rooms = Some({}) THEN TRUE
            ELSE \E m \in included.group : \E r \in Val(included.rooms) :
                    m # None /\ r # None /\ SameIgnoringCase(Val(m), Val(r))

C15_MatchedByCaseOnly ==
    /\ included.result = Some(TRUE)
    /\ included.group = {Some("KITCHEN")}
    /\ included.rooms = Some({Some("kitchen"), None})

(***************************************************************************)
(* Properties of the control commands                                      *)
(***************************************************************************)
\* The value is a number, or a string that is a number and nothing else.
Numeric(v) == \/ v.t = "number"
              \/ v.t = "string" /\ v.lead # None /\ ~v.junk

\* The integer part of a numeric value.
IntegerOf(v) == IF v.t = "number" THEN v.n ELSE Val(v.lead)

Clamped(n) == IF n < 0 THEN 0 ELSE IF n > 100 THEN 100 ELSE n

\* C11: handleSetVolume calls setVolume on the device of a known group with the
\* value clamped into 0..100, and makes no device call when the value is not
\* numeric or the group ID is not in groupsById.
C11_SetVolumeClampsOrRejects ==
    [][command'.op = "setVolume" =>
          LET v == Val(command'.arg)
              g == command'.groupId
          IN command'.sent =
                IF g \in groupsById /\ Numeric(v)
                THEN << [g |-> g, args |-> << Clamped(IntegerOf(v)) >>] >>
                ELSE << >>]_vars

(***************************************************************************)
(* Escalation from the poll cycle of hybrid mode                           *)
(***************************************************************************)
MaxEscalateFaults == 3

EscalatePayload == [HybridPayload EXCEPT !.autoResubscribe = FALSE,
                                         !.maxConsecutiveFailures = Some(2)]

EscalateEnv == [HybridEnv EXCEPT !.patterns = {{}, {"volume"}, Fields},
                                 !.topologies = {{1, 2}},
                                 !.states = {"playing"},
                                 !.failures = {"poll"},
                                 !.maxFaults = MaxEscalateFaults]

InitEscalate ==
    /\ payload = EscalatePayload
    /\ env = EscalateEnv
    /\ Constructed

SpecEscalate == InitEscalate /\ [][NextGroups]_vars

\* C21: a pollGroup completion of hybrid mode invokes triggerRediscovery exactly
\* when its four fetches all failed and the record's consecutiveFailures plus
\* one is at least maxConsecutiveFailures; a completion with a successful fetch
\* never invokes it; a completion that invokes it sends no notification and
\* changes nothing of the group's record but the counter.
C21_EscalatesAtMaximumOnly ==
    [][last'.kind = "poll" =>
          LET pre == heap[last'.slot][last'.g] IN
          /\ calls' # << >>
                <=> /\ AllFailed(last'.r)
                    /\ pre.consecutiveFailures + 1 >= ConfiguredMaximum
          /\ Len(calls') <= 1
          /\ calls' # << >>
                => /\ emitted' = << >>
                   /\ last'.h = [pre EXCEPT !.consecutiveFailures = @ + 1]]_vars

\* The second total failure in a row reached the maximum of 2 and tore down.
C21_EscalatedAtSecondFailure ==
    /\ last.kind = "poll"
    /\ AllFailed(last.r)
    /\ last.h.consecutiveFailures = 2
    /\ calls = << "teardown" >>
    /\ emitted = << >>
    /\ isRediscovering

(***************************************************************************)
(* The failure counter and successful observations                         *)
(***************************************************************************)
\* C22: every successful observation of a tracked group, a push event as well
\* as a pollGroup completion with at least one successful fetch, leaves the
\* consecutiveFailures of the group's record at 0.
C22_SuccessfulObservationResets ==
    [][(/\ last'.kind \in {"poll", "push"}
        /\ last'.slot # 0
        /\ last'.r # NoResults) => last'.h.consecutiveFailures = 0]_vars

(***************************************************************************)
(* The subscription health check                                           *)
(***************************************************************************)
HealthPayloads == {[NoPollPayload EXCEPT !.autoResubscribe = a] : a \in BOOLEAN}

InitHealth ==
    /\ payload \in HealthPayloads
    /\ env = HybridEnv
    /\ Constructed

SpecHealth == InitHealth /\ [][NextNoPoll]_vars

\* Some record of groupHealth has playState 'playing'.
SomePlaying ==
    /\ groupHealth # 0
    /\ \E g \in DOMAIN heap[groupHealth] : heap[groupHealth][g].playState = "playing"

\* C23: with autoResubscribe off the health-check timer is never armed, and a
\* tick of the health check while no record of groupHealth has playState
\* 'playing' starts no renewal, invokes no triggerRediscovery and changes
\* nothing of the helper's state.
C23_IdleTickIsNoOp ==
    [][/\ ~payload.autoResubscribe => ~subscriptionCheckTimer'
       /\ (last'.kind = "health" /\ ~SomePlaying)
            => /\ calls' = << >>
               /\ renewals' = renewals
               /\ emitted' = << >>
               /\ << isRediscovering, asyncDevice, pipes, groups, groupHealth, heap,
                     subscribedDevices, pollTimeout, subscriptionCheckTimer >>'
                  = << isRediscovering, asyncDevice, pipes, groups, groupHealth, heap,
                       subscribedDevices, pollTimeout, subscriptionCheckTimer >>]_vars

\* A tick found the tracked group paused and a subscription object missing, and
\* did nothing.
C23_TickWhilePaused ==
    /\ last.kind = "health"
    /\ last.found = {}
    /\ groups = {1}
    /\ groupHealth # 0
    /\ heap[groupHealth][1].playState = "paused"
    /\ heap[groupHealth][1].device = "dev"
    /\ calls = << >>
    /\ renewals = 0
    /\ ~isRediscovering

(***************************************************************************)
(* Renewals of two subscribed groups                                       *)
(***************************************************************************)
MaxRenewFaults == 2

RenewEnv == [HybridEnv EXCEPT !.topologies = {{1, 2}},
                              !.states = {"playing"},
                              !.failures = {"subscribe", "renew"},
                              !.maxFaults = MaxRenewFaults]

InitRenew ==
    /\ payload = NoPollPayload
    /\ env = RenewEnv
    /\ Constructed

NextRenew ==
    \/ Start
    \/ TimerFire
    \/ DiscoverSettle
    \/ GetAllGroupsSettle
    \/ SnapshotSettle
    \/ SubscribeSettle
    \/ PushPlayState
    \/ HealthCheckTick
    \/ RenewSettle

SpecRenew == InitRenew /\ [][NextRenew]_vars

\* The record of group g is missing or holds no device handle.
NoHandle(g) ==
    \/ groupHealth = 0
    \/ g \notin DOMAIN heap[groupHealth]
    \/ heap[groupHealth][g].device = "null"

\* The groups a tick escalates for: no handle, or no subscription object found.
Escalating(found) == {g \in groups : NoHandle(g) \/ g \notin found}

\* What the completion of a renewal leaves as it was when it succeeds.
Session == << isRediscovering, asyncDevice, pipes, groups, groupHealth, heap,
              subscribedDevices, pollTimeout, subscriptionCheckTimer >>

\* C24 as stated: on a tick while some group plays, every tracked group whose
\* record has no handle, or whose subscription object is missing, invokes
\* triggerRediscovery and every other tracked group gets a renewal call; a
\* renewal that fails invokes triggerRediscovery and one that succeeds changes
\* nothing.
C24_EveryGroupRenewedOrEscalated ==
    [][/\ (last'.kind = "health" /\ SomePlaying)
            => /\ Len(calls') = Cardinality(Escalating(last'.found))
               /\ renewals' = renewals + Cardinality(groups \ Escalating(last'.found))
       /\ last'.kind = "renewFailed" => Len(calls') = 1
       /\ last'.kind = "renewed" => /\ calls' = << >>
                                    /\ emitted' = << >>
                                    /\ Session' = Session]_vars

\* The groups that follow, in the tracked list, the first group for which the
\* tick tore the state down: their records are gone when the loop reaches them.
AfterTeardown(found) ==
    IF isRediscovering \/ Escalating(found) = {} THEN {}
    ELSE {g \in groups : g > SetMin(Escalating(found))}

\* C24 amended: the tick handles the tracked groups in order; a group without
\* handle or subscription object invokes triggerRediscovery, and once that call
\* has torn the state down every later group of the tick invokes it again
\* (skipped by the guard) and gets no renewal call, handle or not; the groups
\* with handle and subscription object before that point get a renewal call.
C24_RenewedUntilTeardown ==
    [][/\ (last'.kind = "health" /\ SomePlaying)
            => LET out == Escalating(last'.found) \cup AfterTeardown(last'.found) IN
               /\ Len(calls') = Cardinality(out)
               /\ renewals' = renewals + Cardinality(groups \ out)
               /\ (out # {} /\ ~isRediscovering) => calls'[1] = "teardown"
       /\ last'.kind = "renewFailed" => Len(calls') = 1
       /\ last'.kind = "renewed" => /\ calls' = << >>
                                    /\ emitted' = << >>
                                    /\ Session' = Session]_vars

\* The tick tore down for group 1, whose subscription object was missing, and
\* then found no record for group 2, whose subscription object was there.
C24_SecondGroupSkipped ==
    /\ last.kind = "health"
    /\ last.found = {2}
    /\ calls = << "teardown", "skipped" >>
    /\ renewals = 0
    /\ isRediscovering
    /\ groupHealth = 0

(***************************************************************************)
(* Listener errors in the three listening modes                            *)
(***************************************************************************)
ErrorPayloads == {[p EXCEPT !.maxConsecutiveFailures = Some(2)] : p \in ModePayloads}

ErrorsEnv == [HybridEnv EXCEPT !.failures = {"poll", "listener"},
                               !.states = {"playing"},
                               !.maxFaults = MaxModeFaults]

InitErrors ==
    /\ payload \in ErrorPayloads
    /\ env = ErrorsEnv
    /\ Constructed

NextErrors ==
    \/ Start
    \/ TimerFire
    \/ DiscoverSettle
    \/ GetAllGroupsSettle
    \/ SnapshotSettle
    \/ SubscribeSettle
    \/ EventSubscribeSettle
    \/ PollTimerFire
    \/ PollGroupSettle
    \/ IntervalFire
    \/ IntervalSettle
    \/ PushPlayState
    \/ ListenerError

SpecErrors == InitErrors /\ [][NextErrors]_vars

\* C25: a listener 'error' event received while isRediscovering is false tears
\* the session down in the same turn: isRediscovering becomes true and one
\* delayed restart is scheduled, in polling-only, hybrid and events-only mode
\* and whatever the failure counters hold.
C25_ListenerErrorEscalatesAtOnce ==
    [][(last'.kind = "listenerError" /\ ~isRediscovering)
          => /\ isRediscovering'
             /\ calls' = << "teardown" >>
             /\ RestartTimers' = RestartTimers + 1]_vars

\* A listener error tore down in polling-only mode while the group's counter
\* stood at 1, below the maximum of 2.
C25_EscalatedBelowMaximum ==
    /\ last.kind = "listenerError"
    /\ calls = << "teardown" >>
    /\ isRediscovering
    /\ Val(config).listenWithPolling
    /\ pollingFailureCounts[1] = Some(1)

(***************************************************************************)
(* The teardown of triggerRediscovery                                      *)
(***************************************************************************)
TeardownEnv == [HybridEnv EXCEPT !.failures = {"poll", "renew", "listener", "stopListener"},
                                 !.states = {"playing"}]

InitTeardown ==
    /\ payload = HybridPayload
    /\ env = TeardownEnv
    /\ Constructed

NextTeardown ==
    \/ Start
    \/ TimerFire
    \/ DiscoverSettle
    \/ GetAllGroupsSettle
    \/ SnapshotSettle
    \/ SubscribeSettle
    \/ PollTimerFire
    \/ PollGroupSettle
    \/ PushPlayState
    \/ HealthCheckTick
    \/ RenewSettle
    \/ ListenerError
    \/ StopListenerSettle

SpecTeardown == InitTeardown /\ [][NextTeardown]_vars

\* C26: the turn in which triggerRediscovery passes its guard ends with the
\* health-check timer cleared, pollTimeout null, no device carrying push
\* listeners, groupHealth and groups empty, asyncDevice null and one more
\* delayed restart scheduled; a stopListener call that fails afterwards cancels
\* no restart and changes nothing.
C26_TeardownClearsSession ==
    [][/\ Count(calls', "teardown") > 0
            => /\ isRediscovering'
               /\ ~subscriptionCheckTimer'
               /\ pollTimeout' = NullTimer
               /\ subscribedDevices' = {}
               /\ groupHealth' = 0
               /\ groups' = {}
               /\ asyncDevice' = 0
               /\ RestartTimers' = RestartTimers + 1
       /\ last'.kind = "stopListenerFailed"
            => /\ RestartTimers' = RestartTimers
               /\ calls' = << >>
               /\ << isRediscovering, asyncDevice, groups, groupHealth, heap,
                     subscribedDevices, pollTimeout, subscriptionCheckTimer >>'
                  = << isRediscovering, asyncDevice, groups, groupHealth, heap,
                       subscribedDevices, pollTimeout, subscriptionCheckTimer >>]_vars

\* A poll completion of the tracked group has torn the session down: everything
\* is cleared, the restart is scheduled and the stopListener call is pending.
C26_PollToreSessionDown ==
    /\ last.kind = "poll"
    /\ calls = << "teardown" >>
    /\ isRediscovering
    /\ ~subscriptionCheckTimer
    /\ pollTimeout = NullTimer
    /\ subscribedDevices = {}
    /\ groupHealth = 0
    /\ groups = {}
    /\ asyncDevice = 0
    /\ RestartTimers = 1
    /\ \E t \in BagToSet(pipes) : t.stage = "stopListener"

(***************************************************************************)
(* The delayed restart                                                     *)
(***************************************************************************)
\* C27, the return: every entry into Rediscovering is followed by the reset of
\* isRediscovering.
C27_RediscoveringEnds == isRediscovering ~> ~isRediscovering

\* C27, the restart: the turn in which the delayed restart fires resets
\* isRediscovering and calls discoverGroups while asyncDevice is null, so that
\* the pipeline it starts begins with a new controller discovery.
C27_RestartDiscoversAfresh ==
    [][RestartTimers' < RestartTimers
          => /\ ~isRediscovering'
             /\ asyncDevice = 0
             /\ asyncDevice' # 0
             /\ promises'[asyncDevice'] = "pending"
             /\ promises[asyncDevice'] = "free"]_vars

(***************************************************************************)
(* Health records and tracked groups                                       *)
(***************************************************************************)
\* The group IDs that have a record in groupHealth.
RecordIds == IF groupHealth = 0 THEN {} ELSE DOMAIN heap[groupHealth]

\* C28: in hybrid mode the group IDs with a record in groupHealth are exactly
\* the IDs of the groups in this.groups, in every reachable state.
C28_RecordsMatchTrackedGroups == RecordIds = groups

\* Records and tracked groups were cleared together by a teardown and created
\* together again by the next setListenersHybrid.
C28_RecreatedAfterTeardown ==
    /\ outage = "restored"
    /\ RecordIds = {1}
    /\ groups = {1}
    /\ ~stopped

(***************************************************************************)
(* New health records                                                      *)
(***************************************************************************)
\* C29: a turn that runs setListenersHybrid leaves one record per valid group,
\* each with playState 'unknown', no lastTrack, lastVolume or lastMuted,
\* consecutiveFailures 0 and no device, whatever the snapshot reported; and a
\* record of groupHealth gets a device only in the turn in which a subscribe
\* call for its group succeeds.
C29_RecordsStartBlank ==
    [][/\ Count(setups', "setListenersHybrid") > 0
            => /\ groupHealth' # 0
               /\ heap'[groupHealth'] = [g \in groupsById' |-> NewHealth]
       /\ \A g \in GroupIds :
            (/\ groupHealth' # 0
             /\ g \in DOMAIN heap'[groupHealth']
             /\ heap'[groupHealth'][g].device # "null")
            => \/ /\ groupHealth' = groupHealth
                  /\ heap[groupHealth][g].device # "null"
               \/ last'.kind = "subscribed" /\ last'.g = g]_vars

\* The snapshot reported the group as playing; its new record says 'unknown'
\* and holds no device.
C29_BlankDespiteSnapshot ==
    /\ last.kind = "snapshot"
    /\ last.r.state = Some("playing")
    /\ setups = << "setListenersHybrid" >>
    /\ groupHealth # 0
    /\ heap[groupHealth] = [g \in {1} |-> NewHealth]
    /\ outage = "restored"

(***************************************************************************)
(* Discovery that keeps failing                                            *)
(***************************************************************************)
MaxBackoffFaults == 7

BackoffEnv == [HybridEnv EXCEPT !.failures = {"discover", "getAllGroups"},
                                !.maxFaults = MaxBackoffFaults,
                                !.maxZones = MaxZones]

InitBackoff ==
    /\ payload = LivePayload
    /\ env = BackoffEnv
    /\ Constructed

NextBackoff ==
    \/ Start
    \/ TimerFire
    \/ DiscoverSettle
    \/ GetAllGroupsSettle
    \/ SnapshotSettle
    \/ SubscribeSettle
    \/ ZonesChanged

SpecBackoff == InitBackoff /\ [][NextBackoff]_vars

\* min(n squared, 30), in seconds.
CappedSquare(n) == IF n * n < BackoffCeiling THEN n * n ELSE BackoffCeiling

\* The turn schedules retry timer t of discoverGroups.
Schedules(t) ==
    /\ t.stage = "timer"
    /\ ~t.restart
    /\ t.attempts >= 1
    /\ CopiesIn(t, pipes') > CopiesIn(t, pipes)

\* C30: the retry that follows the n-th consecutive failed attempt of
\* discoverGroups is scheduled min(n squared, 30) seconds ahead: at most 30
\* seconds, and no sooner than the retry before it in the same run.
C30_BackoffGrowsToCeiling ==
    [][\A t \in BagToSet(pipes') :
          Schedules(t)
          => /\ t.delay = CappedSquare(t.attempts) * 1000
             /\ t.delay <= 30 * 1000
             /\ \E u \in BagToSet(pipes) :
                   /\ u.stage \in {"discover", "getAllGroups"}
                   /\ u.attempts = t.attempts - 1
                   /\ u.attempts >= 1 => t.delay >= CappedSquare(u.attempts) * 1000]_vars

\* The sixth failure in a row: 36 seconds are cut to 30.
C30_CeilingReached ==
    \E t \in BagToSet(pipes) :
        /\ t.stage = "timer"
        /\ t.attempts = 6
        /\ t.delay = 30000
        /\ faults = 6

(***************************************************************************)
(* Failures after the controller discovery                                 *)
(***************************************************************************)
\* The turn consumed a pipeline stage of the given kind and counted a failure.
FailedAt(stage) ==
    /\ faults' > faults
    /\ \E u \in BagToSet(pipes) :
          u.stage = stage /\ CopiesIn(u, pipes') < CopiesIn(u, pipes)

\* The turn scheduled the retry of setGroups: discoverGroups() in 10 seconds.
FixedRetryScheduled ==
    CopiesIn(Timer(SetGroupsRetryDelay, 0, FALSE), pipes')
        > CopiesIn(Timer(SetGroupsRetryDelay, 0, FALSE), pipes)

\* C31: a failed topology fetch, and an initial snapshot that leaves no valid
\* group, schedule the retry of the whole pipeline after the fixed delay, and
\* schedule no retry with the growing delay of the discovery step.
C31_LaterFailuresRetryAtFixedDelay ==
    [][(FailedAt("getAllGroups") \/ (FailedAt("snapshot") /\ emitted' = << >>))
          => /\ FixedRetryScheduled
             /\ \A t \in BagToSet(pipes') : ~Schedules(t)]_vars

(***************************************************************************)
(* The initial snapshot                                                    *)
(***************************************************************************)
MaxSnapshotFaults == 2

\* All rooms, or the one room that only group 2 has.
SnapshotPayloads ==
    {[HybridPayload EXCEPT !.rooms = Some(rooms)] : rooms \in {{}, {Some("LIVING ROOM")}}}

\* Two groups; of the four fetches of a group all succeed, only the track
\* fetch succeeds, only the track fetch fails, or all fail.
SnapshotEnv == [HybridEnv EXCEPT !.topologies = {{1, 2}},
                                 !.patterns = {Fields, {"track"}, Fields \ {"track"}, {}},
                                 !.states = {"playing"},
                                 !.failures = {"snapshot"},
                                 !.maxFaults = MaxSnapshotFaults,
                                 !.maxZones = MaxZones]

InitSnapshot ==
    /\ payload \in SnapshotPayloads
    /\ env = SnapshotEnv
    /\ Constructed

NextSnapshot ==
    \/ Start
    \/ TimerFire
    \/ DiscoverSettle
    \/ GetAllGroupsSettle
    \/ SnapshotSettle
    \/ SubscribeSettle
    \/ ZonesChanged

SpecSnapshot == InitSnapshot /\ [][NextSnapshot]_vars

\* The groups of the topology that the configured rooms let through.
AllowListed == {g \in GroupIds : shouldIncludeGroup(Members(g), payload.rooms)}

\* The groups of a snapshot whose track fetch succeeded.
TrackFetched(items) == {g \in DOMAIN items : items[g].track # None}

\* C32: a snapshot turn keeps exactly the allow-listed groups whose track fetch
\* succeeded, whatever became of their other three fetches: they are sent in
\* SET_SONOS_GROUPS, become groupsById and get the listener setup. If every
\* allow-listed group was dropped, nothing is sent, groupsById stays as it
\* was, no setup runs and discoverGroups is retried after the fixed delay.
C32_SnapshotKeepsGroupsWithTrack ==
    [][last'.kind = "snapshot"
          => /\ DOMAIN last'.items = AllowListed
             /\ IF TrackFetched(last'.items) # {}
                THEN /\ GroupsSent(emitted')
                     /\ groupsById' = TrackFetched(last'.items)
                     /\ setups' = << "setListenersHybrid" >>
                     /\ groups' = TrackFetched(last'.items)
                     /\ ~FixedRetryScheduled
                ELSE /\ ~GroupsSent(emitted')
                     /\ groupsById' = groupsById
                     /\ setups' = << >>
                     /\ groups' = groups
                     /\ groupHealth' = groupHealth
                     /\ FixedRetryScheduled]_vars

\* Group 1 is kept with only its track fetched; group 2 is dropped although
\* its state, volume and mute were fetched.
C32_KeptOnTrackAlone ==
    /\ last.kind = "snapshot"
    /\ DOMAIN last.items = {1, 2}
    /\ last.items[1].volume = None /\ last.items[1].state = None
    /\ last.items[2].track = None /\ last.items[2].volume # None
    /\ groupsById = {1}
    /\ setups = << "setListenersHybrid" >>

\* Every group of a later snapshot is dropped: the groups known from the
\* first one stay in groupsById and a retry is pending.
C32_AllDroppedKeepsOldGroups ==
    /\ last.kind = "snapshot"
    /\ TrackFetched(last.items) = {}
    /\ groupsById # {}
    /\ emitted = << >>
    /\ CopiesIn(Timer(SetGroupsRetryDelay, 0, FALSE), pipes) > 0

(***************************************************************************)
(* A subscribe call that never settles                                     *)
(***************************************************************************)
HangEnv == [HybridEnv EXCEPT !.topologies = {{1, 2}},
                             !.failures = {"snapshot", "subscribe"}]

InitHang ==
    /\ payload = HybridPayload
    /\ env = HangEnv
    /\ Constructed

NextHang ==
    \/ Start
    \/ TimerFire
    \/ DiscoverSettle
    \/ GetAllGroupsSettle
    \/ SnapshotSettle
    \/ SubscribeSettle
    \/ PollTimerFire
    \/ PollGroupSettle

\* The steps that are bound to happen: a timer fires, or a call that runs
\* under withTimeout settles. listener.subscribeTo(device) of
\* setListenersHybrid runs under no timeout and is not among them.
Bounded ==
    \/ TimerFire
    \/ DiscoverSettle
    \/ GetAllGroupsSettle
    \/ SnapshotSettle
    \/ PollTimerFire
    \/ PollGroupSettle

SpecHang == InitHang /\ [][NextHang]_vars /\ WF_vars(Bounded)

\* The poll scheduler and the subscription health checker have been started.
SchedulersStarted ==
    /\ subscriptionCheckTimer
    /\ pollTimeout # NullTimer \/ polls # EmptyBag

\* C33: once setListenersHybrid has materialized the groups, the poll
\* scheduler and the subscription health checker are eventually started,
\* whether or not the subscribe calls of the groups settle.
C33_SchedulersStartWithoutSubscribe == (groups # {}) ~> SchedulersStarted

(***************************************************************************)
(* withTimeout                                                             *)
(* Here the reaction of finally is a step of its own: it is a microtask,   *)
(* and runs before any further timer or settlement is delivered.           *)
(***************************************************************************)
MaxRaces == 2

\* What an operation can settle with: a value or an error.
Outcomes == {[kind |-> "value", v |-> "device"], [kind |-> "error", v |-> "ECONNREFUSED"]}

\* new Error(errorMessage), with the default of the parameter.
TimedOut(message) == [kind |-> "error", v |-> Coalesce(message, "Operation timed out")]

\* withTimeout(promise, ms, errorMessage): the timer is armed, nothing has settled.
withTimeout(s, ms, message) ==
    [s EXCEPT !.races = Append(@, [ms |-> ms, message |-> message,
                                   operation |-> None, timer |-> "armed",
                                   race |-> None, result |-> None,
                                   order |-> << >>])]

\* The operation settles: Promise.race takes its outcome if nothing settled before.
operationSettles(s, c, outcome) ==
    [s EXCEPT !.races[c].operation = Some(outcome),
              !.races[c].race = IF @ = None THEN Some(outcome) ELSE @,
              !.races[c].order = Append(@, "operation")]

\* The timer fires and rejects timeoutPromise.
timeoutFires(s, c) ==
    [s EXCEPT !.races[c].timer = "fired",
              !.races[c].race = IF @ = None THEN Some(TimedOut(s.races[c].message)) ELSE @,
              !.races[c].order = Append(@, "timer")]

\* clearTimeout on a timer that has fired does nothing.
clearTimeout(timer) == IF timer = "armed" THEN "cleared" ELSE timer

\* A finally that passes the outcome on and leaves the timer alone.
raceFinallyLeaking(s, c) == [s EXCEPT !.races[c].result = s.races[c].race]

\* .finally(() => clearTimeout(timeoutId)), then the returned promise settles.
raceFinally(s, c) ==
    [s EXCEPT !.races[c].timer = clearTimeout(@),
              !.races[c].result = s.races[c].race]

\* A reaction of finally is waiting to run.
MicrotaskPending ==
    \E c \in DOMAIN races : races[c].race # None /\ races[c].result = None

WithTimeoutCall ==
    /\ Len(races) < MaxRaces
    /\ ~MicrotaskPending
    /\ \E ms \in {5000, 10000} : \E message \in {None, Some("getAllGroups timed out")} :
          Become(withTimeout(Cur, ms, message))

OperationSettles ==
    \E c \in DOMAIN races : \E outcome \in Outcomes :
        /\ races[c].operation = None
        /\ ~MicrotaskPending
        /\ Become(operationSettles(Cur, c, outcome))

TimeoutFires ==
    \E c \in DOMAIN races :
        /\ races[c].timer = "armed"
        /\ ~MicrotaskPending
        /\ Become(timeoutFires(Cur, c))

RaceFinally ==
    \E c \in DOMAIN races :
        /\ races[c].race # None
        /\ races[c].result = None
        /\ Become(raceFinally(Cur, c))

InitRaces ==
    /\ payload = HybridPayload
    /\ env = HybridEnv
    /\ Constructed

NextRaces ==
    \/ WithTimeoutCall
    \/ OperationSettles
    \/ TimeoutFires
    \/ RaceFinally

SpecRaces == InitRaces /\ [][NextRaces]_vars

\* C34: a call of withTimeout that has settled has the outcome of whichever
\* of its operation and its timer settled first (the value or the error of
\* the operation, or the timeout error with the given message), and its timer
\* is no longer armed; and the race is decided as soon as either has settled.
C34_FirstSettledWinsAndTimerCleared ==
    \A c \in DOMAIN races :
        /\ races[c].order # << >> <=> races[c].race # None
        /\ races[c].result # None
             => /\ races[c].timer # "armed"
                /\ races[c].order # << >>
                /\ IF Head(races[c].order) = "timer"
                   THEN /\ races[c].result = Some([kind |-> "error",
                               v |-> IF races[c].message = None
                                     THEN "Operation timed out"
                                     ELSE Val(races[c].message)])
                        /\ races[c].timer = "fired"
                   ELSE /\ races[c].result = races[c].operation
                        /\ races[c].timer = "cleared"

\* One call timed out and its operation fulfilled afterwards; another call
\* settled with the error of its operation and its timer was cleared.
C34_TimedOutAndRejected ==
    /\ Len(races) = 2
    /\ races[1].order = << "timer", "operation" >>
    /\ races[1].operation = Some([kind |-> "value", v |-> "device"])
    /\ races[1].result = Some(TimedOut(races[1].message))
    /\ races[2].order = << "operation" >>
    /\ races[2].result = Some([kind |-> "error", v |-> "ECONNREFUSED"])
    /\ races[2].timer = "cleared"

(***************************************************************************)
(* Pipelines in flight at a teardown                                       *)
(***************************************************************************)
\* C35: while isRediscovering is set, groups and groupHealth are empty.
C35_NoGroupsWhileRediscovering ==
    isRediscovering => groups = {} /\ RecordIds = {}

\* C36: while isRediscovering is set, neither the poll timer nor the
\* subscription health-check timer is armed.
C36_NoTimersWhileRediscovering ==
    isRediscovering => pollTimeout.st # "armed" /\ ~subscriptionCheckTimer

MaxCommandFaults == 1

\* One group or none in the topology; the listener can fail.
CommandEnv == [HybridEnv EXCEPT !.topologies = {{1}, {}},
                                !.states = {"playing"},
                                !.failures = {"listener"},
                                !.maxFaults = MaxCommandFaults,
                                !.maxZones = MaxZones]

InitCommands ==
    /\ payload = LivePayload
    /\ env = CommandEnv
    /\ Constructed

NextCommands ==
    \/ Start
    \/ TimerFire
    \/ DiscoverSettle
    \/ GetAllGroupsSettle
    \/ SnapshotSettle
    \/ SubscribeSettle
    \/ ListenerError
    \/ ZonesChanged
    \/ TogglePlayPause
    \/ NextTrack
    \/ SetVolume

SpecCommands == InitCommands /\ [][NextCommands]_vars

\* The turn took the topology of a pending getAllGroups.
TopologyTaken ==
    \E u \in BagToSet(pipes) :
        u.stage = "getAllGroups" /\ CopiesIn(u, pipes') < CopiesIn(u, pipes)

\* C38: a teardown leaves groupsById as it was, and a toggle, next or
\* setVolume command for a group ID in groupsById is passed to the device of
\* that group, during Rediscovering as at any other time. groupsById is
\* assigned only in a turn of setGroups that sends SET_SONOS_GROUPS: after a
\* snapshot with at least one valid group, or for an empty filtered list.
C38_CommandsSurviveTeardown ==
    [][/\ Count(calls', "teardown") > 0 => groupsById' = groupsById
       /\ ~GroupsSent(emitted') => groupsById' = groupsById
       /\ GroupsSent(emitted')
            => \/ /\ last'.kind = "snapshot"
                  /\ TrackFetched(last'.items) # {}
                  /\ groupsById' = TrackFetched(last'.items)
               \/ /\ last'.kind # "snapshot"
                  /\ TopologyTaken
                  /\ groupsById' = {}
       /\ (command'.op \in {"togglePlayback", "next"} /\ command'.groupId \in groupsById)
            => command'.sent = << [g |-> command'.groupId, args |-> << >>] >>
       /\ (command'.op = "setVolume" /\ command'.groupId \in groupsById
             /\ parseInt(Val(command'.arg)) # None)
            => /\ Len(command'.sent) = 1
               /\ command'.sent[1].g = command'.groupId]_vars

\* A next command reaches the device of group 1 while the helper is
\* rediscovering and tracks no group.
C38_NextDuringRediscovering ==
    /\ isRediscovering
    /\ groups = {}
    /\ groupHealth = 0
    /\ groupsById = {1}
    /\ command.op = "next"
    /\ command.sent = << [g |-> 1, args |-> << >>] >>

(***************************************************************************)
(* After stop()                                                            *)
(***************************************************************************)
\* The calls of discoverGroups that wait for the controller or the topology.
DiscoveriesRunning ==
    LET running == {t \in BagToSet(pipes) : t.stage \in {"discover", "getAllGroups"}}
        RECURSIVE Sum(_)
        Sum(ts) == IF ts = {} THEN 0
                   ELSE LET t == CHOOSE x \in ts : TRUE
                        IN CopiesIn(t, pipes) + Sum(ts \ {t})
    IN Sum(running)

\* MagicMirror shuts down a helper that has received SONOS_START.
StopStarted ==
    /\ config # None
    /\ Stop

NextQuiet ==
    \/ Start
    \/ TimerFire
    \/ DiscoverSettle
    \/ GetAllGroupsSettle
    \/ SnapshotSettle
    \/ SubscribeSettle
    \/ PollTimerFire
    \/ PollGroupSettle
    \/ ListenerError
    \/ StopStarted

SpecQuiet == InitStop /\ [][NextQuiet]_vars

\* C39: once stop() has run, no turn starts a discovery, arms the poll timer
\* or the health-check timer, or sends a notification.
C39_QuiescentAfterStop ==
    [][stopped
          => /\ DiscoveriesRunning' <= DiscoveriesRunning
             /\ pollTimeout'.st # "armed"
             /\ ~subscriptionCheckTimer'
             /\ emitted' = << >>]_vars

(***************************************************************************)
(* src/node_helper.js: backup polls across a teardown                      *)
(***************************************************************************)
\* C40: from the teardown of triggerRediscovery to the next setup no backup
\* polling interval is armed, and no backup poll sends a notification or
\* refreshes the watchdog timestamp.
C40_NoBackupPollAfterTeardown ==
    [][outage' = "down"
          => /\ pollingIntervals' = {}
             /\ last'.kind = "tick"
                  => /\ emitted' = << >>
                     /\ lastUpdateTimestamp' = lastUpdateTimestamp]_vars

====
